---- MODULE Spec2Model ----
(***************************************************************************)
(* The hybrid tree of src/src/tree/hybrid.cpp: Build (load an index file   *)
(* or build and dump one), DumpToFile / DumpFromFile, Search (host         *)
(* traversal + device leaf scan) and BruteForceSearchOnCPU.                *)
(***************************************************************************)
EXTENDS Integers, Sequences, FiniteSets, TLC

\* ---------------------------------------------------------------- bounds
\* number of data points of the largest input data set
MaxPoints == 5
\* number of program runs (sessions) that share one index file
MaxSessions == 2

\* queries of the largest batch Search is given
MaxQueries == 2
\* the largest chunk size SetChunkSize is given
MaxChunk == 2
\* kernels the stream holds before a launch waits for the device
MaxInFlight == 1
\* jumps of one query after which the model stops following the loop
MaxJumps == 4
\* the largest std::thread::hardware_concurrency()
MaxThreads == 2

\* coordinates a (one-dimensional) point may take
Coords == {0, 1}

\* ------------------------------------------------------ program constants
\* GetNumberOfDegrees(): the fan-out of a node
NumberOfDegrees == 2
\* sizeof(node::Node), in abstract bytes
SizeofNode == 4
\* address of the first heap slot Top_Down allocates nodes in
HeapBase == 100
\* address of the array DumpFromFile allocates (new node::Node[total_node_count])
LoadBase == 1000

\* GetNumberOfBlocks(): work-groups per scan
NumberOfBlocks == 2
\* GetNumberOfThreads(): workers per work-group, one per branch slot
NumberOfThreads == 2

NODE_TYPE_INTERNAL == "internal"
NODE_TYPE_LEAF == "leaf"

\* ------------------------------------------------------------- arithmetic
Min(a, b) == IF a <= b THEN a ELSE b

Max(a, b) == IF a >= b THEN a ELSE b

CeilDiv(a, b) == (a + b - 1) \div b

SetMin(S) == CHOOSE x \in S : \A y \in S : x <= y

SetMax(S) == CHOOSE x \in S : \A y \in S : x >= y

RECURSIVE SumSeq(_)
SumSeq(s) == IF s = <<>> THEN 0 ELSE Head(s) + SumSeq(Tail(s))

\* ------------------------------------------------- the tree Top_Down builds
\* node counts per level, root first, for w nodes on the last level
RECURSIVE LevelWidths(_)
LevelWidths(w) ==
  IF w <= 1 THEN <<1>> ELSE LevelWidths(CeilDiv(w, NumberOfDegrees)) \o <<w>>

\* breadth-first position of the first node of level l (levels 1..height)
LevelBase(w, l) == SumSeq(SubSeq(w, 1, l - 1))

\* level of the node at breadth-first position p
LevelOf(w, p) == CHOOSE l \in 1..Len(w) : LevelBase(w, l) <= p /\ p < LevelBase(w, l) + w[l]

\* branch count of node i (0-based) of level l, over n data points
BranchCountAt(w, n, l, i) ==
  IF l = Len(w) THEN Min(NumberOfDegrees, n - i * NumberOfDegrees)
  ELSE Min(NumberOfDegrees, w[l + 1] - i * NumberOfDegrees)

\* the largest leaf branch index below node i of level l
RECURSIVE SubtreeMaxIndex(_, _, _, _)
SubtreeMaxIndex(w, n, l, i) ==
  IF l = Len(w) THEN i * NumberOfDegrees + BranchCountAt(w, n, l, i)
  ELSE SubtreeMaxIndex(w, n, l + 1,
                       i * NumberOfDegrees + BranchCountAt(w, n, l, i) - 1)

\* the coordinates of the data points below node i of level l
RECURSIVE SubtreeCoords(_, _, _, _)
SubtreeCoords(data, w, l, i) ==
  LET cc == BranchCountAt(w, Len(data), l, i) IN
  IF l = Len(w) THEN {data[i * NumberOfDegrees + j] : j \in 1..cc}
  ELSE UNION {SubtreeCoords(data, w, l + 1, i * NumberOfDegrees + j - 1) : j \in 1..cc}

\* the placements of the nodes on the heap: breadth-first position -> slot
Placements(t) ==
  { [p \in 0..(t - 1) |-> p],
    [p \in 0..(t - 1) |-> t - 1 - p],
    [p \in 0..(t - 1) |-> (p + 1) % t] }

AddrOf(slot, p) == HeapBase + slot[p] * SizeofNode

\* the node at breadth-first position p, its child references node-relative
TopDownNode(data, w, slot, p) ==
  LET l == LevelOf(w, p)
      i == p - LevelBase(w, l)
      cc == BranchCountAt(w, Len(data), l, i)
  IN IF l = Len(w)
     THEN [type |-> NODE_TYPE_LEAF,
           branches |-> [j \in 1..cc |->
              [index |-> i * NumberOfDegrees + j,
               min |-> data[i * NumberOfDegrees + j],
               max |-> data[i * NumberOfDegrees + j],
               child_offset |-> 0]]]
     ELSE [type |-> NODE_TYPE_INTERNAL,
           branches |-> [j \in 1..cc |->
              LET c == i * NumberOfDegrees + j - 1 IN
              [index |-> SubtreeMaxIndex(w, Len(data), l + 1, c),
               min |-> SetMin(SubtreeCoords(data, w, l + 1, c)),
               max |-> SetMax(SubtreeCoords(data, w, l + 1, c)),
               child_offset |-> AddrOf(slot, LevelBase(w, l + 1) + c) - AddrOf(slot, p)]]]

\* the heap after Top_Down: address -> node
TopDownHeap(data, slot) ==
  LET w == LevelWidths(CeilDiv(Len(data), NumberOfDegrees))
      t == SumSeq(w)
  IN [a \in {AddrOf(slot, p) : p \in 0..(t - 1)} |->
        TopDownNode(data, w, slot, CHOOSE p \in 0..(t - 1) : AddrOf(slot, p) = a)]

\* ------------------------------------------------------- node accessors
GetNodeType(h, a) == h[a].type

GetBranchCount(h, a) == Len(h[a].branches)

GetBranchChildOffset(h, a, j) == h[a].branches[j + 1].child_offset

\* the child a branch refers to: the node's own address plus the offset
GetBranchChildNode(h, a, j) == a + GetBranchChildOffset(h, a, j)

SetBranchChildOffset(h, a, j, off) ==
  [h EXCEPT ![a].branches[j + 1].child_offset = off]

\* the structure-of-arrays record of one leaf node
LeafToSOA(n) ==
  [branch_count |-> Len(n.branches),
   index |-> [j \in 1..Len(n.branches) |-> n.branches[j].index],
   min |-> [j \in 1..Len(n.branches) |-> n.branches[j].min],
   max |-> [j \in 1..Len(n.branches) |-> n.branches[j].max]]

\* new node::Node_SOA[leaf_node_count] before any branch is copied into it
EmptySOA == [branch_count |-> 0, index |-> <<>>, min |-> <<>>, max |-> <<>>]

\* breadth-first order of the nodes reachable from the queue's nodes
RECURSIVE BFSFrom(_, _, _)
BFSFrom(h, queue, out) ==
  IF queue = <<>> THEN out
  ELSE LET a == Head(queue)
           kids == IF GetNodeType(h, a) = NODE_TYPE_INTERNAL
                   THEN [j \in 1..GetBranchCount(h, a) |-> GetBranchChildNode(h, a, j - 1)]
                   ELSE <<>>
       IN BFSFrom(h, Tail(queue) \o kids, Append(out, a))

BFSOrder(h, root) == BFSFrom(h, <<root>>, <<>>)

PosOf(s, a) == (CHOOSE k \in 1..Len(s) : s[k] = a) - 1

\* ---------------------------------------------------------------- state
VARIABLES
  input_data_set,         \* the points Build indexes (names the index file)
  session,                \* the program run
  pc,                     \* position in Build / DumpFromFile / DumpToFile
  ret,                    \* Build's ret
  loaded,                 \* what DumpFromFile returned
  stages,                 \* the stages this Build has executed, in order
  file_exists,            \* whether the index file exists
  index_file,             \* its content: the records written, in order
  fpos,                   \* DumpFromFile's read position (1-based)
  read_log,               \* per fread: <<what it reads, tags of what it got>>
  height,                 \* local size_t height
  level_itr,              \* loop counter of the level loops
  level_node_count,
  total_node_count,
  leaf_node_count,
  node_ptr,               \* address of the root (0: none)
  heap,                   \* address -> node::Node
  node_soa_ptr,           \* the Node_SOA leaf buffer on the host
  g_node_soa_ptr,         \* the Node_SOA leaf buffer on the device
  h2d_copies,             \* host-to-device copies of the leaf buffer
  branches,               \* Build's local vector of branches
  bfs_queue,
  original_child_offset,
  node,                   \* DumpToFile's local node
  child_itr,
  dumped,                 \* history: the live tree as DumpToFile found it
  \* ---- Search
  chunk_size,             \* leaf nodes per scan (SetChunkSize)
  spc,                    \* position in Search
  query,                  \* the query batch: one box per query
  number_of_search,
  query_itr,
  visited_leafIndex,
  node_visit_count,
  jump_count,
  start_node_index,
  start_node_offset,
  total_node_visit_count_cpu,
  total_hit,
  total_node_visit_count_gpu,
  h_hit,
  h_node_visit_count,
  d_hit,
  d_node_visit_count,
  g_hit,                  \* __device__ ui g_hit[GetNumberOfBlocks()]
  g_node_visit_count,
  stream,                 \* kernels launched and not yet completed, in order
  launched,               \* history: every scan launched, in order
  completed,              \* history: every scan completed, in order
  touched,                \* history: the leaf indices scans dereferenced
  \* ---- BruteForceSearchOnCPU
  bpc,                    \* position in BruteForceSearchOnCPU
  bf_query,
  number_of_threads,
  bf_chunk_size,          \* the local chunk_size
  start_offset,
  end_offset,
  thread_itr,
  threads,                \* per thread: its arguments and its position
  thread_start_node_offset,
  thread_hit,
  bf_start_node_offset,   \* the local vector start_node_offset
  hit,
  \* ---- one invocation of global_ParallelScanning_Leafnodes, worker by worker
  kernel_args,            \* _query, start_node_offset, chunk_size
  wpc,                    \* per group and worker: its position in the kernel
  node_itr,               \* per group and worker: its loop variable
  barriers,               \* per group and worker: the __syncthreads() it has reached
  t_hit,                  \* per group: __shared__ ui t_hit[GetNumberOfThreads()]
  writes,                 \* history: who wrote which counter slot, and when
  tested                  \* history: per group and worker, the leaf indices it tested

buildVars ==
  <<input_data_set, session, pc, ret, loaded, stages, file_exists, index_file,
    fpos, read_log, height, level_itr, level_node_count, total_node_count,
    leaf_node_count, node_ptr, heap, node_soa_ptr, g_node_soa_ptr, h2d_copies,
    branches, bfs_queue, original_child_offset, node, child_itr, dumped>>

searchVars ==
  <<chunk_size, spc, query, number_of_search, query_itr, visited_leafIndex,
    node_visit_count, jump_count, start_node_index, start_node_offset,
    total_node_visit_count_cpu, total_hit, total_node_visit_count_gpu, h_hit,
    h_node_visit_count, d_hit, d_node_visit_count, g_hit, g_node_visit_count,
    stream, launched, completed, touched>>

bruteVars ==
  <<bpc, bf_query, number_of_threads, bf_chunk_size, start_offset, end_offset,
    thread_itr, threads, thread_start_node_offset, thread_hit,
    bf_start_node_offset, hit>>

workerVars == <<kernel_args, wpc, node_itr, barriers, t_hit, writes, tested>>

vars == <<buildVars, searchVars, bruteVars, workerVars>>

NoHeap == [a \in {} |-> 0]

NoDump ==
  [level_node_count |-> <<>>, total_node_count |-> 0, leaf_node_count |-> 0,
   heap |-> NoHeap, bfs |-> <<>>, nodes |-> <<>>, children |-> <<>>, soa |-> <<>>]

DataSets == UNION {[1..n -> Coords] : n \in 1..MaxPoints}

\* a Hybrid object after construction, in a fresh process
FreshObject ==
  /\ pc = "Build"
  /\ ret = FALSE
  /\ loaded = FALSE
  /\ stages = <<>>
  /\ fpos = 0
  /\ read_log = <<>>
  /\ height = 0
  /\ level_itr = 0
  /\ level_node_count = <<>>
  /\ total_node_count = 0
  /\ leaf_node_count = 0
  /\ node_ptr = 0
  /\ heap = NoHeap
  /\ node_soa_ptr = <<>>
  /\ g_node_soa_ptr = <<>>
  /\ h2d_copies = 0
  /\ branches = <<>>
  /\ bfs_queue = <<>>
  /\ original_child_offset = <<>>
  /\ node = 0
  /\ child_itr = 0

Zeros == [b \in 0..(NumberOfBlocks - 1) |-> 0]

\* no Search has been called; the __device__ arrays are zero-initialised
SearchIdle ==
  /\ chunk_size = 0
  /\ spc = "idle"
  /\ query = <<>>
  /\ number_of_search = 0
  /\ query_itr = 0
  /\ visited_leafIndex = 0
  /\ node_visit_count = 0
  /\ jump_count = 0
  /\ start_node_index = 0
  /\ start_node_offset = 0
  /\ total_node_visit_count_cpu = 0
  /\ total_hit = 0
  /\ total_node_visit_count_gpu = 0
  /\ h_hit = Zeros
  /\ h_node_visit_count = Zeros
  /\ d_hit = Zeros
  /\ d_node_visit_count = Zeros
  /\ g_hit = Zeros
  /\ g_node_visit_count = Zeros
  /\ stream = <<>>
  /\ launched = <<>>
  /\ completed = <<>>
  /\ touched = {}

\* no BruteForceSearchOnCPU has been called
BruteIdle ==
  /\ bpc = "idle"
  /\ bf_query = [min |-> 0, max |-> 0]
  /\ number_of_threads = 0
  /\ bf_chunk_size = 0
  /\ start_offset = 0
  /\ end_offset = 0
  /\ thread_itr = 0
  /\ threads = <<>>
  /\ thread_start_node_offset = <<>>
  /\ thread_hit = <<>>
  /\ bf_start_node_offset = <<>>
  /\ hit = 0

Blocks == 0..(NumberOfBlocks - 1)

Workers == 0..(NumberOfThreads - 1)

NoKernel == [kernel |-> "none", query |-> [min |-> 0, max |-> 0], start |-> 0, chunk |-> 0]

\* no worker-level invocation has been launched
WorkersIdle ==
  /\ kernel_args = NoKernel
  /\ wpc = [b \in Blocks |-> [t \in Workers |-> "idle"]]
  /\ node_itr = [b \in Blocks |-> [t \in Workers |-> 0]]
  /\ barriers = [b \in Blocks |-> [t \in Workers |-> 0]]
  /\ t_hit = [b \in Blocks |-> [t \in Workers |-> 0]]
  /\ writes = {}
  /\ tested = [b \in Blocks |-> [t \in Workers |-> <<>>]]

Init ==
  /\ input_data_set \in DataSets
  /\ session = 1
  /\ file_exists = FALSE
  /\ index_file = <<>>
  /\ dumped = NoDump
  /\ FreshObject
  /\ SearchIdle
  /\ BruteIdle
  /\ WorkersIdle


\* ------------------------------------------------------------ index file
Cell(tag, val) == [tag |-> tag, val |-> val]

\* the value fread finds at position k (nothing past the end of the file)
FileVal(k) == IF k \in 1..Len(index_file) THEN index_file[k].val ELSE 0

FileTags(from, count) ==
  [k \in 1..count |-> IF from + k - 1 \in 1..Len(index_file)
                      THEN index_file[from + k - 1].tag ELSE "eof"]

\* level_node_count.resize(h)
Resize(v, h) == [i \in 1..h |-> IF i <= Len(v) THEN v[i] ELSE 0]

\* ---------------------------------------------------------- Hybrid::Build
\* faulty variant: the index file is never found
IndexFileAbsent_Always == TRUE

\* fopen(index_name, "rb") finds no file
IndexFileAbsent == ~file_exists

\* Build calls DumpFromFile, which finds no index file and returns false
DumpFromFile_Absent ==
  /\ pc = "Build"
  /\ IndexFileAbsent
  /\ loaded' = FALSE
  /\ stages' = Append(stages, "DumpFromFile")
  /\ pc' = "CreateBranches"
  /\ UNCHANGED <<searchVars, bruteVars, workerVars>>
  /\ UNCHANGED <<input_data_set, session, ret, file_exists, index_file, fpos,
                 read_log, height, level_itr, level_node_count, total_node_count,
                 leaf_node_count, node_ptr, heap, node_soa_ptr, g_node_soa_ptr,
                 h2d_copies, branches, bfs_queue, original_child_offset, node,
                 child_itr, dumped>>

\* Build calls DumpFromFile, which opens the index file
DumpFromFile_Open ==
  /\ pc = "Build"
  /\ ~IndexFileAbsent
  /\ stages' = Append(stages, "DumpFromFile")
  /\ fpos' = 1
  /\ pc' = "ReadHeight"
  /\ UNCHANGED <<searchVars, bruteVars, workerVars>>
  /\ UNCHANGED <<input_data_set, session, ret, loaded, file_exists, index_file,
                 read_log, height, level_itr, level_node_count, total_node_count,
                 leaf_node_count, node_ptr, heap, node_soa_ptr, g_node_soa_ptr,
                 h2d_copies, branches, bfs_queue, original_child_offset, node,
                 child_itr, dumped>>

DumpFromFile_ReadHeight ==
  /\ pc = "ReadHeight"
  /\ height' = FileVal(fpos)
  /\ level_node_count' = Resize(level_node_count, FileVal(fpos))
  /\ read_log' = Append(read_log, [want |-> "height", got |-> FileTags(fpos, 1)])
  /\ fpos' = fpos + 1
  /\ level_itr' = 0
  /\ pc' = "ReadLevel"
  /\ UNCHANGED <<searchVars, bruteVars, workerVars>>
  /\ UNCHANGED <<input_data_set, session, ret, loaded, stages, file_exists,
                 index_file, total_node_count, leaf_node_count, node_ptr, heap,
                 node_soa_ptr, g_node_soa_ptr, h2d_copies, branches, bfs_queue,
                 original_child_offset, node, child_itr, dumped>>

DumpFromFile_ReadLevel ==
  /\ pc = "ReadLevel"
  /\ IF level_itr < height
     THEN /\ level_node_count' = [level_node_count EXCEPT ![level_itr + 1] = FileVal(fpos)]
          /\ read_log' = Append(read_log,
                                [want |-> "level_node_count", got |-> FileTags(fpos, 1)])
          /\ fpos' = fpos + 1
          /\ level_itr' = level_itr + 1
          /\ pc' = pc
     ELSE /\ pc' = "ReadTotal"
          /\ UNCHANGED <<level_node_count, read_log, fpos, level_itr>>
  /\ UNCHANGED <<searchVars, bruteVars, workerVars>>
  /\ UNCHANGED <<input_data_set, session, ret, loaded, stages, file_exists,
                 index_file, height, total_node_count, leaf_node_count, node_ptr,
                 heap, node_soa_ptr, g_node_soa_ptr, h2d_copies, branches,
                 bfs_queue, original_child_offset, node, child_itr, dumped>>

DumpFromFile_ReadTotal ==
  /\ pc = "ReadTotal"
  /\ total_node_count' = FileVal(fpos)
  /\ read_log' = Append(read_log, [want |-> "total_node_count", got |-> FileTags(fpos, 1)])
  /\ fpos' = fpos + 1
  /\ pc' = "ReadLeafCount"
  /\ UNCHANGED <<searchVars, bruteVars, workerVars>>
  /\ UNCHANGED <<input_data_set, session, ret, loaded, stages, file_exists,
                 index_file, height, level_itr, level_node_count, leaf_node_count,
                 node_ptr, heap, node_soa_ptr, g_node_soa_ptr, h2d_copies,
                 branches, bfs_queue, original_child_offset, node, child_itr, dumped>>

DumpFromFile_ReadLeafCount ==
  /\ pc = "ReadLeafCount"
  /\ leaf_node_count' = FileVal(fpos)
  /\ read_log' = Append(read_log, [want |-> "leaf_node_count", got |-> FileTags(fpos, 1)])
  /\ fpos' = fpos + 1
  /\ pc' = "ReadNodes"
  /\ UNCHANGED <<searchVars, bruteVars, workerVars>>
  /\ UNCHANGED <<input_data_set, session, ret, loaded, stages, file_exists,
                 index_file, height, level_itr, level_node_count, total_node_count,
                 node_ptr, heap, node_soa_ptr, g_node_soa_ptr, h2d_copies,
                 branches, bfs_queue, original_child_offset, node, child_itr, dumped>>

\* node_ptr = new node::Node[total_node_count]; one fread of the whole array
DumpFromFile_ReadNodes ==
  /\ pc = "ReadNodes"
  /\ node_ptr' = LoadBase
  /\ heap' = [a \in {LoadBase + k * SizeofNode : k \in 0..(total_node_count - 1)} |->
                FileVal(fpos + (a - LoadBase) \div SizeofNode)]
  /\ read_log' = Append(read_log,
                        [want |-> "Node", got |-> FileTags(fpos, total_node_count)])
  /\ fpos' = fpos + total_node_count
  /\ pc' = "ReadSOA"
  /\ UNCHANGED <<searchVars, bruteVars, workerVars>>
  /\ UNCHANGED <<input_data_set, session, ret, loaded, stages, file_exists,
                 index_file, height, level_itr, level_node_count, total_node_count,
                 leaf_node_count, node_soa_ptr, g_node_soa_ptr, h2d_copies,
                 branches, bfs_queue, original_child_offset, node, child_itr, dumped>>

\* node_soa_ptr = new node::Node_SOA[leaf_node_count]; one fread; fclose; return true
DumpFromFile_ReadSOA ==
  /\ pc = "ReadSOA"
  /\ node_soa_ptr' = [k \in 1..leaf_node_count |-> FileVal(fpos + k - 1)]
  /\ read_log' = Append(read_log,
                        [want |-> "Node_SOA", got |-> FileTags(fpos, leaf_node_count)])
  /\ fpos' = fpos + leaf_node_count
  /\ loaded' = TRUE
  /\ pc' = "MoveTreeToGPU"
  /\ UNCHANGED <<searchVars, bruteVars, workerVars>>
  /\ UNCHANGED <<input_data_set, session, ret, stages, file_exists, index_file,
                 height, level_itr, level_node_count, total_node_count,
                 leaf_node_count, node_ptr, heap, g_node_soa_ptr, h2d_copies,
                 branches, bfs_queue, original_child_offset, node, child_itr, dumped>>

\* a stage that returns ret, followed by assert(ret)
AssertRet(r, next) == IF r THEN next ELSE "aborted"

CreateBranches ==
  /\ pc = "CreateBranches"
  /\ branches' = input_data_set
  /\ stages' = Append(stages, "CreateBranches")
  /\ pc' = "AssignHilbertIndexToBranches"
  /\ UNCHANGED <<searchVars, bruteVars, workerVars>>
  /\ UNCHANGED <<input_data_set, session, ret, loaded, file_exists, index_file,
                 fpos, read_log, height, level_itr, level_node_count,
                 total_node_count, leaf_node_count, node_ptr, heap, node_soa_ptr,
                 g_node_soa_ptr, h2d_copies, bfs_queue, original_child_offset,
                 node, child_itr, dumped>>

AssignHilbertIndexToBranches ==
  /\ pc = "AssignHilbertIndexToBranches"
  /\ \E r \in BOOLEAN :
       /\ ret' = r
       /\ pc' = AssertRet(r, "Sort")
  /\ stages' = Append(stages, "AssignHilbertIndexToBranches")
  /\ UNCHANGED <<searchVars, bruteVars, workerVars>>
  /\ UNCHANGED <<input_data_set, session, loaded, file_exists, index_file, fpos,
                 read_log, height, level_itr, level_node_count, total_node_count,
                 leaf_node_count, node_ptr, heap, node_soa_ptr, g_node_soa_ptr,
                 h2d_copies, branches, bfs_queue, original_child_offset, node,
                 child_itr, dumped>>

Sort ==
  /\ pc = "Sort"
  /\ \E r \in BOOLEAN :
       /\ ret' = r
       /\ pc' = AssertRet(r, "Top_Down")
  /\ stages' = Append(stages, "Sort")
  /\ UNCHANGED <<searchVars, bruteVars, workerVars>>
  /\ UNCHANGED <<input_data_set, session, loaded, file_exists, index_file, fpos,
                 read_log, height, level_itr, level_node_count, total_node_count,
                 leaf_node_count, node_ptr, heap, node_soa_ptr, g_node_soa_ptr,
                 h2d_copies, branches, bfs_queue, original_child_offset, node,
                 child_itr, dumped>>

\* builds the nodes, scattered on the heap, and the tree's counts
Top_Down ==
  /\ pc = "Top_Down"
  /\ stages' = Append(stages, "Top_Down")
  /\ \/ /\ ret' = FALSE
        /\ pc' = AssertRet(FALSE, "CopyBranchToNodeSOA")
        /\ UNCHANGED <<level_node_count, total_node_count, leaf_node_count,
                       node_ptr, heap>>
     \/ LET w == LevelWidths(CeilDiv(Len(branches), NumberOfDegrees)) IN
        \E slot \in Placements(SumSeq(w)) :
          /\ ret' = TRUE
          /\ pc' = AssertRet(TRUE, "CopyBranchToNodeSOA")
          /\ level_node_count' = w
          /\ total_node_count' = SumSeq(w)
          /\ leaf_node_count' = w[Len(w)]
          /\ heap' = TopDownHeap(branches, slot)
          /\ node_ptr' = AddrOf(slot, 0)
  /\ UNCHANGED <<searchVars, bruteVars, workerVars>>
  /\ UNCHANGED <<input_data_set, session, loaded, file_exists, index_file, fpos,
                 read_log, height, level_itr, node_soa_ptr, g_node_soa_ptr,
                 h2d_copies, branches, bfs_queue, original_child_offset, node,
                 child_itr, dumped>>

\* the leaf nodes, in leaf order, as Node_SOA records
LeafSOA(h, root, leaves) ==
  LET bfs == BFSOrder(h, root) IN
  [k \in 1..leaves |-> LeafToSOA(h[bfs[Len(bfs) - leaves + k]])]

\* node_soa_ptr = new Node_SOA[leaf_node_count]; ret = CopyBranchToNodeSOA(...)
\* (ret is not asserted)
CopyBranchToNodeSOA ==
  /\ pc = "CopyBranchToNodeSOA"
  /\ stages' = Append(stages, "CopyBranchToNodeSOA")
  /\ \/ /\ ret' = TRUE
        /\ node_soa_ptr' = LeafSOA(heap, node_ptr, leaf_node_count)
     \/ /\ ret' = FALSE
        /\ node_soa_ptr' = [k \in 1..leaf_node_count |-> EmptySOA]
  /\ pc' = "DumpToFile"
  /\ UNCHANGED <<searchVars, bruteVars, workerVars>>
  /\ UNCHANGED <<input_data_set, session, loaded, file_exists, index_file, fpos,
                 read_log, height, level_itr, level_node_count, total_node_count,
                 leaf_node_count, node_ptr, heap, g_node_soa_ptr, h2d_copies,
                 branches, bfs_queue, original_child_offset, node, child_itr, dumped>>


\* ----------------------------------------------------- Hybrid::DumpToFile
\* history: the live tree, breadth-first, as DumpToFile finds it
Snapshot ==
  LET bfs == BFSOrder(heap, node_ptr) IN
  [level_node_count |-> level_node_count,
   total_node_count |-> total_node_count,
   leaf_node_count |-> leaf_node_count,
   heap |-> heap,
   bfs |-> bfs,
   nodes |-> [k \in 1..Len(bfs) |-> heap[bfs[k]]],
   children |-> [k \in 1..Len(bfs) |->
      IF GetNodeType(heap, bfs[k]) = NODE_TYPE_INTERNAL
      THEN [j \in 1..GetBranchCount(heap, bfs[k]) |->
              PosOf(bfs, GetBranchChildNode(heap, bfs[k], j - 1))]
      ELSE <<>>],
   soa |-> node_soa_ptr]

\* fopen(index_name, "wb"); size_t height = level_node_count.size()
DumpToFile_Open ==
  /\ pc = "DumpToFile"
  /\ stages' = Append(stages, "DumpToFile")
  /\ file_exists' = TRUE
  /\ index_file' = <<>>
  /\ height' = Len(level_node_count)
  /\ dumped' = Snapshot
  /\ pc' = "WriteHeight"
  /\ UNCHANGED <<searchVars, bruteVars, workerVars>>
  /\ UNCHANGED <<input_data_set, session, ret, loaded, fpos, read_log, level_itr,
                 level_node_count, total_node_count, leaf_node_count, node_ptr,
                 heap, node_soa_ptr, g_node_soa_ptr, h2d_copies, branches,
                 bfs_queue, original_child_offset, node, child_itr>>

DumpToFile_WriteHeight ==
  /\ pc = "WriteHeight"
  /\ index_file' = Append(index_file, Cell("height", height))
  /\ level_itr' = 0
  /\ pc' = "WriteLevel"
  /\ UNCHANGED <<searchVars, bruteVars, workerVars>>
  /\ UNCHANGED <<input_data_set, session, ret, loaded, stages, file_exists, fpos,
                 read_log, height, level_node_count, total_node_count,
                 leaf_node_count, node_ptr, heap, node_soa_ptr, g_node_soa_ptr,
                 h2d_copies, branches, bfs_queue, original_child_offset, node,
                 child_itr, dumped>>

DumpToFile_WriteLevel ==
  /\ pc = "WriteLevel"
  /\ IF level_itr < height
     THEN /\ index_file' = Append(index_file,
                                  Cell("level_node_count", level_node_count[level_itr + 1]))
          /\ level_itr' = level_itr + 1
          /\ pc' = pc
     ELSE /\ pc' = "WriteTotal"
          /\ UNCHANGED <<index_file, level_itr>>
  /\ UNCHANGED <<searchVars, bruteVars, workerVars>>
  /\ UNCHANGED <<input_data_set, session, ret, loaded, stages, file_exists, fpos,
                 read_log, height, level_node_count, total_node_count,
                 leaf_node_count, node_ptr, heap, node_soa_ptr, g_node_soa_ptr,
                 h2d_copies, branches, bfs_queue, original_child_offset, node,
                 child_itr, dumped>>

DumpToFile_WriteTotal ==
  /\ pc = "WriteTotal"
  /\ index_file' = Append(index_file, Cell("total_node_count", total_node_count))
  /\ pc' = "WriteLeafCount"
  /\ UNCHANGED <<searchVars, bruteVars, workerVars>>
  /\ UNCHANGED <<input_data_set, session, ret, loaded, stages, file_exists, fpos,
                 read_log, height, level_itr, level_node_count, total_node_count,
                 leaf_node_count, node_ptr, heap, node_soa_ptr, g_node_soa_ptr,
                 h2d_copies, branches, bfs_queue, original_child_offset, node,
                 child_itr, dumped>>

\* writes leaf_node_count, then pushes the root node on the queue
DumpToFile_WriteLeafCount ==
  /\ pc = "WriteLeafCount"
  /\ index_file' = Append(index_file, Cell("leaf_node_count", leaf_node_count))
  /\ bfs_queue' = <<node_ptr>>
  /\ original_child_offset' = <<>>
  /\ pc' = "Pop"
  /\ UNCHANGED <<searchVars, bruteVars, workerVars>>
  /\ UNCHANGED <<input_data_set, session, ret, loaded, stages, file_exists, fpos,
                 read_log, height, level_itr, level_node_count, total_node_count,
                 leaf_node_count, node_ptr, heap, node_soa_ptr, g_node_soa_ptr,
                 h2d_copies, branches, node, child_itr, dumped>>

\* while(!bfs_queue.empty()) { node = bfs_queue.front(); bfs_queue.pop(); ...
DumpToFile_Pop ==
  /\ pc = "Pop"
  /\ IF bfs_queue # <<>>
     THEN /\ node' = Head(bfs_queue)
          /\ bfs_queue' = Tail(bfs_queue)
          /\ child_itr' = 0
          /\ pc' = IF GetNodeType(heap, Head(bfs_queue)) = NODE_TYPE_INTERNAL
                   THEN "PatchChild" ELSE "WriteNode"
     ELSE /\ pc' = "WriteSOA"
          /\ UNCHANGED <<node, bfs_queue, child_itr>>
  /\ UNCHANGED <<searchVars, bruteVars, workerVars>>
  /\ UNCHANGED <<input_data_set, session, ret, loaded, stages, file_exists,
                 index_file, fpos, read_log, height, level_itr, level_node_count,
                 total_node_count, leaf_node_count, node_ptr, heap, node_soa_ptr,
                 g_node_soa_ptr, h2d_copies, branches, original_child_offset, dumped>>

\* faulty variant: the size of the queue taken as a byte offset
ReassignedChildOffset_NoSizeof(queue) == Len(queue)

\* faulty variant: the size of the queue taken before the child is pushed
ReassignedChildOffset_BeforePush(queue) == (Len(queue) - 1) * SizeofNode

\* ll child_offset = (ll)bfs_queue.size()*(ll)sizeof(node::Node), the queue
\* holding the child just pushed
ReassignedChildOffset(queue) == Len(queue) * SizeofNode

\* faulty variant: the child is pushed at the front of the queue
Emplace_Front(queue, child_node) == <<child_node>> \o queue

\* bfs_queue.emplace(child_node)
Emplace(queue, child_node) == Append(queue, child_node)

\* one turn of the backup loop: push the child, back up its offset, patch it
DumpToFile_PatchChild ==
  /\ pc = "PatchChild"
  /\ IF child_itr < GetBranchCount(heap, node)
     THEN LET child_node == GetBranchChildNode(heap, node, child_itr)
              queue == Emplace(bfs_queue, child_node)
          IN /\ bfs_queue' = queue
             /\ original_child_offset' =
                  Append(original_child_offset, GetBranchChildOffset(heap, node, child_itr))
             /\ heap' = SetBranchChildOffset(heap, node, child_itr,
                                             ReassignedChildOffset(queue))
             /\ child_itr' = child_itr + 1
             /\ pc' = pc
     ELSE /\ pc' = "WriteNode"
          /\ UNCHANGED <<bfs_queue, original_child_offset, heap, child_itr>>
  /\ UNCHANGED <<searchVars, bruteVars, workerVars>>
  /\ UNCHANGED <<input_data_set, session, ret, loaded, stages, file_exists,
                 index_file, fpos, read_log, height, level_itr, level_node_count,
                 total_node_count, leaf_node_count, node_ptr, node_soa_ptr,
                 g_node_soa_ptr, h2d_copies, branches, node, dumped>>

\* fwrite(node, sizeof(node::Node), 1, index_file)
DumpToFile_WriteNode ==
  /\ pc = "WriteNode"
  /\ index_file' = Append(index_file, Cell("Node", heap[node]))
  /\ child_itr' = 0
  /\ pc' = IF GetNodeType(heap, node) = NODE_TYPE_INTERNAL
           THEN "RestoreChild" ELSE "Clear"
  /\ UNCHANGED <<searchVars, bruteVars, workerVars>>
  /\ UNCHANGED <<input_data_set, session, ret, loaded, stages, file_exists, fpos,
                 read_log, height, level_itr, level_node_count, total_node_count,
                 leaf_node_count, node_ptr, heap, node_soa_ptr, g_node_soa_ptr,
                 h2d_copies, branches, bfs_queue, original_child_offset, node, dumped>>

\* original_child_offset[child_itr]
BackupOf(backup, itr) == IF itr + 1 \in 1..Len(backup) THEN backup[itr + 1] ELSE 0

\* one turn of the recover loop
DumpToFile_RestoreChild ==
  /\ pc = "RestoreChild"
  /\ IF child_itr < GetBranchCount(heap, node)
     THEN /\ heap' = SetBranchChildOffset(heap, node, child_itr,
                                          BackupOf(original_child_offset, child_itr))
          /\ child_itr' = child_itr + 1
          /\ pc' = pc
     ELSE /\ pc' = "Clear"
          /\ UNCHANGED <<heap, child_itr>>
  /\ UNCHANGED <<searchVars, bruteVars, workerVars>>
  /\ UNCHANGED <<input_data_set, session, ret, loaded, stages, file_exists,
                 index_file, fpos, read_log, height, level_itr, level_node_count,
                 total_node_count, leaf_node_count, node_ptr, node_soa_ptr,
                 g_node_soa_ptr, h2d_copies, branches, bfs_queue,
                 original_child_offset, node, dumped>>

\* faulty variant: the backup list is not cleared between nodes
ClearedBackup_Kept(backup) == backup

\* original_child_offset.clear()
ClearedBackup(backup) == <<>>

DumpToFile_Clear ==
  /\ pc = "Clear"
  /\ original_child_offset' = ClearedBackup(original_child_offset)
  /\ pc' = "Pop"
  /\ UNCHANGED <<searchVars, bruteVars, workerVars>>
  /\ UNCHANGED <<input_data_set, session, ret, loaded, stages, file_exists,
                 index_file, fpos, read_log, height, level_itr, level_node_count,
                 total_node_count, leaf_node_count, node_ptr, heap, node_soa_ptr,
                 g_node_soa_ptr, h2d_copies, branches, bfs_queue, node, child_itr,
                 dumped>>

\* fwrite(node_soa_ptr, sizeof(node::Node_SOA), leaf_node_count, index_file); fclose
DumpToFile_WriteSOA ==
  /\ pc = "WriteSOA"
  /\ index_file' = index_file \o
        [k \in 1..leaf_node_count |-> Cell("Node_SOA", node_soa_ptr[k])]
  /\ pc' = "MoveTreeToGPU"
  /\ UNCHANGED <<searchVars, bruteVars, workerVars>>
  /\ UNCHANGED <<input_data_set, session, ret, loaded, stages, file_exists, fpos,
                 read_log, height, level_itr, level_node_count, total_node_count,
                 leaf_node_count, node_ptr, heap, node_soa_ptr, g_node_soa_ptr,
                 h2d_copies, branches, bfs_queue, original_child_offset, node,
                 child_itr, dumped>>

\* ret = MoveTreeToGPU(0, leaf_node_count); assert(ret); return true
MoveTreeToGPU ==
  /\ pc = "MoveTreeToGPU"
  /\ stages' = Append(stages, "MoveTreeToGPU")
  /\ \/ /\ ret' = TRUE
        /\ g_node_soa_ptr' = SubSeq(node_soa_ptr, 1, leaf_node_count)
        /\ h2d_copies' = h2d_copies + 1
        /\ pc' = AssertRet(TRUE, "return true")
     \/ /\ ret' = FALSE
        /\ pc' = AssertRet(FALSE, "return true")
        /\ UNCHANGED <<g_node_soa_ptr, h2d_copies>>
  /\ UNCHANGED <<searchVars, bruteVars, workerVars>>
  /\ UNCHANGED <<input_data_set, session, loaded, file_exists, index_file, fpos,
                 read_log, height, level_itr, level_node_count, total_node_count,
                 leaf_node_count, node_ptr, heap, node_soa_ptr, branches,
                 bfs_queue, original_child_offset, node, child_itr, dumped>>

\* the process ends; a later run builds the same data set with a new object
NextSession ==
  /\ pc \in {"return true", "aborted"}
  /\ session < MaxSessions
  /\ session' = session + 1
  /\ pc' = "Build"
  /\ ret' = FALSE
  /\ loaded' = FALSE
  /\ stages' = <<>>
  /\ fpos' = 0
  /\ read_log' = <<>>
  /\ height' = 0
  /\ level_itr' = 0
  /\ level_node_count' = <<>>
  /\ total_node_count' = 0
  /\ leaf_node_count' = 0
  /\ node_ptr' = 0
  /\ heap' = NoHeap
  /\ node_soa_ptr' = <<>>
  /\ g_node_soa_ptr' = <<>>
  /\ h2d_copies' = 0
  /\ branches' = <<>>
  /\ bfs_queue' = <<>>
  /\ original_child_offset' = <<>>
  /\ node' = 0
  /\ child_itr' = 0
  /\ UNCHANGED <<searchVars, bruteVars, workerVars>>
  /\ UNCHANGED <<input_data_set, file_exists, index_file, dumped>>

Next ==
  \/ DumpFromFile_Absent
  \/ DumpFromFile_Open
  \/ DumpFromFile_ReadHeight
  \/ DumpFromFile_ReadLevel
  \/ DumpFromFile_ReadTotal
  \/ DumpFromFile_ReadLeafCount
  \/ DumpFromFile_ReadNodes
  \/ DumpFromFile_ReadSOA
  \/ CreateBranches
  \/ AssignHilbertIndexToBranches
  \/ Sort
  \/ Top_Down
  \/ CopyBranchToNodeSOA
  \/ DumpToFile_Open
  \/ DumpToFile_WriteHeight
  \/ DumpToFile_WriteLevel
  \/ DumpToFile_WriteTotal
  \/ DumpToFile_WriteLeafCount
  \/ DumpToFile_Pop
  \/ DumpToFile_PatchChild
  \/ DumpToFile_WriteNode
  \/ DumpToFile_RestoreChild
  \/ DumpToFile_Clear
  \/ DumpToFile_WriteSOA
  \/ MoveTreeToGPU
  \/ NextSession

Spec == Init /\ [][Next]_vars


\* ------------------------------------------------- the state Build leaves
\* the index file DumpToFile writes for the tree of snapshot d
DumpImage(d) ==
  <<Cell("height", Len(d.level_node_count))>>
  \o [i \in 1..Len(d.level_node_count) |-> Cell("level_node_count", d.level_node_count[i])]
  \o <<Cell("total_node_count", d.total_node_count),
       Cell("leaf_node_count", d.leaf_node_count)>>
  \o [k \in 1..Len(d.bfs) |->
        Cell("Node",
             [d.nodes[k] EXCEPT !.branches =
                [j \in 1..Len(d.nodes[k].branches) |->
                   IF d.nodes[k].type = NODE_TYPE_INTERNAL
                   THEN [d.nodes[k].branches[j] EXCEPT
                           !.child_offset = (d.children[k][j] - (k - 1)) * SizeofNode]
                   ELSE d.nodes[k].branches[j]]])]
  \o [k \in 1..d.leaf_node_count |-> Cell("Node_SOA", d.soa[k])]

\* Build of a fresh index at line 78: every stage has succeeded, the index
\* has been dumped, MoveTreeToGPU is about to run
BuiltInit ==
  /\ input_data_set \in DataSets
  /\ session = 1
  /\ pc = "MoveTreeToGPU"
  /\ ret = TRUE
  /\ loaded = FALSE
  /\ stages = <<"DumpFromFile", "CreateBranches", "AssignHilbertIndexToBranches",
                "Sort", "Top_Down", "CopyBranchToNodeSOA", "DumpToFile">>
  /\ branches = input_data_set
  /\ LET w == LevelWidths(CeilDiv(Len(input_data_set), NumberOfDegrees))
         slot == [p \in 0..(SumSeq(w) - 1) |-> p]
     IN /\ level_node_count = w
        /\ total_node_count = SumSeq(w)
        /\ leaf_node_count = w[Len(w)]
        /\ height = Len(w)
        /\ level_itr = Len(w)
        /\ heap = TopDownHeap(input_data_set, slot)
        /\ node_ptr = AddrOf(slot, 0)
        /\ node = AddrOf(slot, SumSeq(w) - 1)
  /\ node_soa_ptr = LeafSOA(heap, node_ptr, leaf_node_count)
  /\ dumped = Snapshot
  /\ file_exists = TRUE
  /\ index_file = DumpImage(dumped)
  /\ fpos = 0
  /\ read_log = <<>>
  /\ g_node_soa_ptr = <<>>
  /\ h2d_copies = 0
  /\ bfs_queue = <<>>
  /\ original_child_offset = <<>>
  /\ child_itr = 0
  /\ SearchIdle
  /\ BruteIdle
  /\ WorkersIdle

\* ------------------------------------------- Hybrid::TraverseInternalNodes
Queries == {[min |-> a, max |-> b] : a \in Coords, b \in Coords} \ {[min |-> 1, max |-> 0]}

\* Node::IsOverlap(query, branch_itr): the boxes share a point
IsOverlap(q, b) == q.min <= b.max /\ b.min <= q.max

GetBranchIndex(h, a, j) == h[a].branches[j + 1].index

\* faulty variant: the leaf loop ignores visited_leafIndex
FirstLeafBranchAfter_Any(h, a, visited, j) ==
  IF GetBranchCount(h, a) = 0 THEN 0 ELSE GetBranchIndex(h, a, 0)

\* the leaf loop: the index of the first branch past visited, or 0
RECURSIVE FirstLeafBranchAfter(_, _, _, _)
FirstLeafBranchAfter(h, a, visited, j) ==
  IF j >= GetBranchCount(h, a) THEN 0
  ELSE IF GetBranchIndex(h, a, j) > visited THEN GetBranchIndex(h, a, j)
  ELSE FirstLeafBranchAfter(h, a, visited, j + 1)

\* [start |-> start_node_index, visits |-> increments of *node_visit_count]
RECURSIVE TraverseInternalNodes(_, _, _, _)
RECURSIVE TraverseBranches(_, _, _, _, _)
TraverseBranches(h, a, q, visited, j) ==
  IF j >= GetBranchCount(h, a) THEN [start |-> 0, visits |-> 0]
  ELSE IF GetBranchIndex(h, a, j) > visited /\ IsOverlap(q, h[a].branches[j + 1])
       THEN LET r == TraverseInternalNodes(h, GetBranchChildNode(h, a, j), q, visited) IN
            IF r.start > 0 THEN r
            ELSE LET rest == TraverseBranches(h, a, q, visited, j + 1) IN
                 [start |-> rest.start, visits |-> r.visits + rest.visits]
       ELSE TraverseBranches(h, a, q, visited, j + 1)

TraverseInternalNodes(h, a, q, visited) ==
  IF GetNodeType(h, a) = NODE_TYPE_INTERNAL
  THEN LET r == TraverseBranches(h, a, q, visited, 0) IN
       [start |-> r.start, visits |-> r.visits + 1]
  ELSE [start |-> FirstLeafBranchAfter(h, a, visited, 0), visits |-> 1]

\* ------------------------------------------------------------ the device
\* the leaf record a worker reads at index i of the device buffer; past the
\* end of the buffer it reads whatever lies there
LeafAt(buf, i) == IF i \in 0..(Len(buf) - 1) THEN buf[i + 1] ELSE EmptySOA

\* Node_SOA::IsOverlap(query, tid)
IsOverlapSOA(q, leaf, tid) == q.min <= leaf.max[tid + 1] /\ leaf.min[tid + 1] <= q.max

\* for(node_itr = bid; node_itr < chunk_size; node_itr += GetNumberOfBlocks())
ScanNodes(bid, chunk) == {n \in 0..(chunk - 1) : n % NumberOfBlocks = bid}

\* t_hit[tid] when the loop of group bid ends
THit(buf, q, start, chunk, bid, tid) ==
  Cardinality({n \in ScanNodes(bid, chunk) :
                 /\ tid < LeafAt(buf, start + n).branch_count
                 /\ IsOverlapSOA(q, LeafAt(buf, start + n), tid)})

\* ParallelReduction(t_hit, GetNumberOfThreads()): the fold of t_hit the
\* master worker adds to g_hit[bid]
RECURSIVE ParallelReduction(_, _, _, _, _, _)
ParallelReduction(buf, q, start, chunk, bid, n) ==
  IF n = 0 THEN 0
  ELSE THit(buf, q, start, chunk, bid, n - 1)
       + ParallelReduction(buf, q, start, chunk, bid, n - 1)

\* global_ParallelScanning_Leafnodes: g_hit after every group has run
ScanHit(buf, k, g) ==
  [b \in 0..(NumberOfBlocks - 1) |->
     g[b] + ParallelReduction(buf, k.query, k.start, k.chunk, b, NumberOfThreads)]

\* global_ParallelScanning_Leafnodes: g_node_visit_count after the scan
ScanVisit(k, g) ==
  [b \in 0..(NumberOfBlocks - 1) |-> g[b] + Cardinality(ScanNodes(b, k.chunk))]

\* the leaf indices the workers of a scan dereference
ScanTouched(k) ==
  {k.start + n : n \in UNION {ScanNodes(b, k.chunk) : b \in 0..(NumberOfBlocks - 1)}}

\* --------------------------------------------------------- Hybrid::Search
Kernel(name, q, start, chunk) ==
  [kernel |-> name, query |-> q, start |-> start, chunk |-> chunk]

NoQuery == [min |-> 0, max |-> 0]

\* a kernel launch returns at once; the kernel joins the stream
Launch(k) == Append(stream, k)

CanLaunch == Len(stream) < MaxInFlight

SumHits(h) == SumSeq([i \in 1..NumberOfBlocks |-> h[i - 1]])

hostFrame ==
  <<g_hit, g_node_visit_count, d_hit, d_node_visit_count, completed, touched>>

SetChunkSize ==
  /\ pc = "return true"
  /\ spc = "idle"
  /\ \E c \in 0..MaxChunk :
       /\ c # chunk_size
       /\ chunk_size' = c
  /\ UNCHANGED <<spc, query, number_of_search, query_itr, visited_leafIndex,
                 node_visit_count, jump_count, start_node_index, start_node_offset,
                 total_node_visit_count_cpu, total_hit, total_node_visit_count_gpu,
                 h_hit, h_node_visit_count, stream, launched>>
  /\ UNCHANGED hostFrame
  /\ UNCHANGED <<buildVars, bruteVars, workerVars>>

\* lines 214-241: the counters, global_SetHitCount<<<1,GetNumberOfBlocks()>>>(0)
Search_Begin ==
  /\ pc = "return true"
  /\ spc = "idle"
  /\ bpc = "idle"
  /\ CanLaunch
  /\ \E n \in 1..MaxQueries :
       \E qs \in [1..n -> Queries] :
         /\ number_of_search' = n
         /\ query' = qs
  /\ h_hit' = Zeros
  /\ h_node_visit_count' = Zeros
  /\ total_hit' = 0
  /\ total_node_visit_count_cpu' = 0
  /\ total_node_visit_count_gpu' = 0
  /\ stream' = Launch(Kernel("global_SetHitCount", NoQuery, 0, 0))
  /\ query_itr' = 0
  /\ spc' = "query"
  /\ UNCHANGED <<chunk_size, visited_leafIndex, node_visit_count, jump_count,
                 start_node_index, start_node_offset, launched>>
  /\ UNCHANGED hostFrame
  /\ UNCHANGED <<buildVars, bruteVars, workerVars>>

\* line 242-246: the head of the query loop
Search_Query ==
  /\ spc = "query"
  /\ IF query_itr < number_of_search
     THEN /\ visited_leafIndex' = 0
          /\ node_visit_count' = 0
          /\ jump_count' = 0
          /\ spc' = "traverse"
     ELSE /\ spc' = "get_hit_count"
          /\ UNCHANGED <<visited_leafIndex, node_visit_count, jump_count>>
  /\ UNCHANGED <<chunk_size, query, number_of_search, query_itr, start_node_index,
                 start_node_offset, total_node_visit_count_cpu, total_hit,
                 total_node_visit_count_gpu, h_hit, h_node_visit_count, stream,
                 launched>>
  /\ UNCHANGED hostFrame
  /\ UNCHANGED <<buildVars, bruteVars, workerVars>>

\* lines 252-259: the host traversal, and the break on 0
Search_Traverse ==
  /\ spc = "traverse"
  /\ LET r == TraverseInternalNodes(heap, node_ptr, query[query_itr + 1],
                                    visited_leafIndex)
     IN /\ start_node_index' = r.start
        /\ node_visit_count' = node_visit_count + r.visits
        /\ total_node_visit_count_cpu' =
             total_node_visit_count_cpu + node_visit_count + r.visits
        /\ IF r.start = 0
           THEN /\ query_itr' = query_itr + 1
                /\ spc' = "query"
           ELSE /\ spc' = "resize"
                /\ UNCHANGED query_itr
  /\ UNCHANGED <<chunk_size, query, number_of_search, visited_leafIndex,
                 jump_count, start_node_offset, total_hit,
                 total_node_visit_count_gpu, h_hit, h_node_visit_count, stream,
                 launched>>
  /\ UNCHANGED hostFrame
  /\ UNCHANGED <<buildVars, bruteVars, workerVars>>

\* faulty variant: the chunk is not resized
ResizedChunkSize_NoClip(offset, chunk, leaves) == chunk

\* faulty variant: every jump takes all the leaf nodes that remain
ResizedChunkSize_Whole(offset, chunk, leaves) == leaves - offset

\* faulty variant: the clip leaves one leaf node less than remains
ResizedChunkSize_ClipsShort(offset, chunk, leaves) ==
  IF offset + chunk > leaves THEN leaves - offset - 1 ELSE chunk

\* lines 268-270: chunk_size after the resize
ResizedChunkSize(offset, chunk, leaves) ==
  IF offset + chunk > leaves THEN leaves - offset ELSE chunk

\* lines 261-270
Search_Resize ==
  /\ spc = "resize"
  /\ LET offset == (start_node_index - 1) \div NumberOfDegrees IN
     /\ start_node_offset' = offset
     /\ chunk_size' = ResizedChunkSize(offset, chunk_size, leaf_node_count)
  /\ spc' = "launch"
  /\ UNCHANGED <<query, number_of_search, query_itr, visited_leafIndex,
                 node_visit_count, jump_count, start_node_index,
                 total_node_visit_count_cpu, total_hit, total_node_visit_count_gpu,
                 h_hit, h_node_visit_count, stream, launched>>
  /\ UNCHANGED hostFrame
  /\ UNCHANGED <<buildVars, bruteVars, workerVars>>

\* faulty variant: the leaf buffer is moved to the device again before every scan
Search_Launch_MovesLeaves ==
  /\ spc = "launch"
  /\ CanLaunch
  /\ jump_count < MaxJumps
  /\ LET k == Kernel("global_ParallelScanning_Leafnodes", query[query_itr + 1],
                     start_node_offset, chunk_size)
     IN /\ stream' = Launch(k)
        /\ launched' = Append(launched, k)
  /\ visited_leafIndex' = (start_node_offset + chunk_size) * NumberOfDegrees
  /\ jump_count' = jump_count + 1
  /\ spc' = "traverse"
  /\ g_node_soa_ptr' = SubSeq(node_soa_ptr, 1, leaf_node_count)
  /\ h2d_copies' = h2d_copies + 1
  /\ UNCHANGED <<chunk_size, query, number_of_search, query_itr, node_visit_count,
                 start_node_index, start_node_offset, total_node_visit_count_cpu,
                 total_hit, total_node_visit_count_gpu, h_hit, h_node_visit_count>>
  /\ UNCHANGED hostFrame
  /\ UNCHANGED <<input_data_set, session, pc, ret, loaded, stages, file_exists,
                 index_file, fpos, read_log, height, level_itr, level_node_count,
                 total_node_count, leaf_node_count, node_ptr, heap, node_soa_ptr,
                 branches, bfs_queue, original_child_offset, node, child_itr, dumped>>
  /\ UNCHANGED <<bruteVars, workerVars>>

\* faulty variant: visited_leafIndex is advanced to the start of the chunk only
Search_Launch_ForgetsChunk ==
  /\ spc = "launch"
  /\ CanLaunch
  /\ jump_count < MaxJumps
  /\ LET k == Kernel("global_ParallelScanning_Leafnodes", query[query_itr + 1],
                     start_node_offset, chunk_size)
     IN /\ stream' = Launch(k)
        /\ launched' = Append(launched, k)
  /\ visited_leafIndex' = start_node_offset * NumberOfDegrees
  /\ jump_count' = jump_count + 1
  /\ spc' = "traverse"
  /\ UNCHANGED <<chunk_size, query, number_of_search, query_itr, node_visit_count,
                 start_node_index, start_node_offset, total_node_visit_count_cpu,
                 total_hit, total_node_visit_count_gpu, h_hit, h_node_visit_count>>
  /\ UNCHANGED hostFrame
  /\ UNCHANGED <<buildVars, bruteVars, workerVars>>

\* faulty variant: visited_leafIndex is advanced one leaf node past the chunk
Search_Launch_SkipsLeaf ==
  /\ spc = "launch"
  /\ CanLaunch
  /\ jump_count < MaxJumps
  /\ LET k == Kernel("global_ParallelScanning_Leafnodes", query[query_itr + 1],
                     start_node_offset, chunk_size)
     IN /\ stream' = Launch(k)
        /\ launched' = Append(launched, k)
  /\ visited_leafIndex' = (start_node_offset + chunk_size + 1) * NumberOfDegrees
  /\ jump_count' = jump_count + 1
  /\ spc' = "traverse"
  /\ UNCHANGED <<chunk_size, query, number_of_search, query_itr, node_visit_count,
                 start_node_index, start_node_offset, total_node_visit_count_cpu,
                 total_hit, total_node_visit_count_gpu, h_hit, h_node_visit_count>>
  /\ UNCHANGED hostFrame
  /\ UNCHANGED <<buildVars, bruteVars, workerVars>>

\* lines 278-283: the launch of the scan (no cudaDeviceSynchronize follows)
Search_Launch ==
  /\ spc = "launch"
  /\ CanLaunch
  /\ jump_count < MaxJumps
  /\ LET k == Kernel("global_ParallelScanning_Leafnodes", query[query_itr + 1],
                     start_node_offset, chunk_size)
     IN /\ stream' = Launch(k)
        /\ launched' = Append(launched, k)
  /\ visited_leafIndex' = (start_node_offset + chunk_size) * NumberOfDegrees
  /\ jump_count' = jump_count + 1
  /\ spc' = "traverse"
  /\ UNCHANGED <<chunk_size, query, number_of_search, query_itr, node_visit_count,
                 start_node_index, start_node_offset, total_node_visit_count_cpu,
                 total_hit, total_node_visit_count_gpu, h_hit, h_node_visit_count>>
  /\ UNCHANGED hostFrame
  /\ UNCHANGED <<buildVars, bruteVars, workerVars>>

\* line 291: global_GetHitCount<<<1,GetNumberOfBlocks()>>>(d_hit, d_node_visit_count)
Search_GetHitCount ==
  /\ spc = "get_hit_count"
  /\ CanLaunch
  /\ stream' = Launch(Kernel("global_GetHitCount", NoQuery, 0, 0))
  /\ spc' = "memcpy"
  /\ UNCHANGED <<chunk_size, query, number_of_search, query_itr, visited_leafIndex,
                 node_visit_count, jump_count, start_node_index, start_node_offset,
                 total_node_visit_count_cpu, total_hit, total_node_visit_count_gpu,
                 h_hit, h_node_visit_count, launched>>
  /\ UNCHANGED hostFrame
  /\ UNCHANGED <<buildVars, bruteVars, workerVars>>

\* faulty variant: the copy does not wait for the stream
MemcpyMayRun_NoWait(s) == TRUE

\* cudaMemcpy on the default stream runs once every kernel launched has completed
MemcpyMayRun(s) == s = <<>>

\* lines 292-299: the copies to the host and the sums
Search_Memcpy ==
  /\ spc = "memcpy"
  /\ MemcpyMayRun(stream)
  /\ h_hit' = d_hit
  /\ h_node_visit_count' = d_node_visit_count
  /\ total_hit' = total_hit + SumHits(d_hit)
  /\ total_node_visit_count_gpu' = total_node_visit_count_gpu + SumHits(d_node_visit_count)
  /\ spc' = "done"
  /\ UNCHANGED <<chunk_size, query, number_of_search, query_itr, visited_leafIndex,
                 node_visit_count, jump_count, start_node_index, start_node_offset,
                 total_node_visit_count_cpu, stream, launched>>
  /\ UNCHANGED hostFrame
  /\ UNCHANGED <<buildVars, bruteVars, workerVars>>

deviceFrame ==
  <<chunk_size, spc, query, number_of_search, query_itr, visited_leafIndex,
    node_visit_count, jump_count, start_node_index, start_node_offset,
    total_node_visit_count_cpu, total_hit, total_node_visit_count_gpu, h_hit,
    h_node_visit_count, launched>>

\* the device runs global_SetHitCount, the first kernel of the stream
Device_SetHitCount ==
  /\ stream # <<>>
  /\ Head(stream).kernel = "global_SetHitCount"
  /\ g_hit' = Zeros
  /\ g_node_visit_count' = Zeros
  /\ stream' = Tail(stream)
  /\ UNCHANGED <<d_hit, d_node_visit_count, completed, touched>>
  /\ UNCHANGED deviceFrame
  /\ UNCHANGED <<buildVars, bruteVars, workerVars>>

\* the device runs global_ParallelScanning_Leafnodes, the first kernel of the stream
Device_Scan ==
  /\ stream # <<>>
  /\ Head(stream).kernel = "global_ParallelScanning_Leafnodes"
  /\ g_hit' = ScanHit(g_node_soa_ptr, Head(stream), g_hit)
  /\ g_node_visit_count' = ScanVisit(Head(stream), g_node_visit_count)
  /\ touched' = touched \cup ScanTouched(Head(stream))
  /\ completed' = Append(completed, Head(stream))
  /\ stream' = Tail(stream)
  /\ UNCHANGED <<d_hit, d_node_visit_count>>
  /\ UNCHANGED deviceFrame
  /\ UNCHANGED <<buildVars, bruteVars, workerVars>>

\* the device runs global_GetHitCount, the first kernel of the stream
Device_GetHitCount ==
  /\ stream # <<>>
  /\ Head(stream).kernel = "global_GetHitCount"
  /\ d_hit' = g_hit
  /\ d_node_visit_count' = g_node_visit_count
  /\ stream' = Tail(stream)
  /\ UNCHANGED <<g_hit, g_node_visit_count, completed, touched>>
  /\ UNCHANGED deviceFrame
  /\ UNCHANGED <<buildVars, bruteVars, workerVars>>

NextSearch ==
  \/ MoveTreeToGPU
  \/ SetChunkSize
  \/ Search_Begin
  \/ Search_Query
  \/ Search_Traverse
  \/ Search_Resize
  \/ Search_Launch
  \/ Search_GetHitCount
  \/ Search_Memcpy
  \/ Device_SetHitCount
  \/ Device_Scan
  \/ Device_GetHitCount

SpecSearch == BuiltInit /\ [][NextSearch]_vars

\* the host thread keeps running Search, and the device keeps running the
\* kernels of its stream
SearchFairness ==
  /\ WF_vars(Search_Query \/ Search_Traverse \/ Search_Resize \/ Search_Launch
               \/ Search_GetHitCount \/ Search_Memcpy)
  /\ WF_vars(Device_SetHitCount \/ Device_Scan \/ Device_GetHitCount)

\* the data sets of MaxPoints points whose coordinate changes at most once
\* along the sequence
LiveDataSets ==
  {d \in DataSets :
     /\ Len(d) = MaxPoints
     /\ Cardinality({i \in 1..(Len(d) - 1) : d[i] # d[i + 1]}) <= 1}

\* the state Build leaves for one of those data sets
LiveInit == BuiltInit /\ input_data_set \in LiveDataSets

SpecSearchLive == LiveInit /\ [][NextSearch]_vars /\ SearchFairness

\* ------------------------------------------ Hybrid::BruteForceSearchOnCPU
\* what an uninitialised ui thread_hit[i] may hold
Garbage == {0, 3}

\* faulty variant: the remainder is left out of the first range
FirstEndOffset_NoRemainder(start, chunk, leaves, nthreads) == start + chunk

\* line 362: end_offset = start_offset + chunk_size + leaf_node_count%number_of_threads
FirstEndOffset(start, chunk, leaves, nthreads) == start + chunk + (leaves % nthreads)

\* lines 349-362: the locals; thread_hit is declared and not initialised
Brute_Begin ==
  /\ pc = "return true"
  /\ bpc = "idle"
  /\ spc \in {"idle", "done"}
  /\ \E n \in 1..MaxThreads :
       \E g \in [0..(n - 1) -> Garbage] :
         /\ number_of_threads' = n
         /\ thread_hit' = g
         /\ thread_start_node_offset' = [i \in 0..(n - 1) |-> <<>>]
         /\ bf_chunk_size' = leaf_node_count \div n
         /\ end_offset' = FirstEndOffset(0, leaf_node_count \div n, leaf_node_count, n)
  /\ \E q \in (IF spc = "done" THEN {query[1]} ELSE Queries) : bf_query' = q
  /\ start_offset' = 0
  /\ thread_itr' = 0
  /\ threads' = <<>>
  /\ bf_start_node_offset' = <<>>
  /\ hit' = 0
  /\ bpc' = "launch"
  /\ UNCHANGED <<buildVars, searchVars, workerVars>>

\* lines 365-372: one turn of the launch loop
Brute_Launch ==
  /\ bpc = "launch"
  /\ IF thread_itr < number_of_threads
     THEN /\ threads' = Append(threads, [start_offset |-> start_offset,
                                         end_offset |-> end_offset,
                                         node_itr |-> start_offset])
          /\ start_offset' = end_offset
          /\ end_offset' = end_offset + bf_chunk_size
          /\ thread_itr' = thread_itr + 1
          /\ bpc' = bpc
     ELSE /\ thread_itr' = 0
          /\ bpc' = "join"
          /\ UNCHANGED <<threads, start_offset, end_offset>>
  /\ UNCHANGED <<bf_query, number_of_threads, bf_chunk_size,
                 thread_start_node_offset, thread_hit, bf_start_node_offset, hit>>
  /\ UNCHANGED <<buildVars, searchVars, workerVars>>

\* the branches of a leaf record that overlap the query
OverlappingBranches(q, leaf) ==
  {c \in 0..(leaf.branch_count - 1) : IsOverlapSOA(q, leaf, c)}

\* lines 402-409: thread t scans one leaf node of its range
Thread_BruteForce ==
  /\ \E t \in 1..Len(threads) :
       /\ threads[t].node_itr < threads[t].end_offset
       /\ LET n == threads[t].node_itr
              found == Cardinality(OverlappingBranches(bf_query, LeafAt(node_soa_ptr, n)))
          IN /\ thread_start_node_offset' =
                  [thread_start_node_offset EXCEPT
                     ![t - 1] = @ \o [c \in 1..found |-> n]]
             /\ thread_hit' = [thread_hit EXCEPT ![t - 1] = @ + found]
             /\ threads' = [threads EXCEPT ![t].node_itr = n + 1]
  /\ UNCHANGED <<bpc, bf_query, number_of_threads, bf_chunk_size, start_offset,
                 end_offset, thread_itr, bf_start_node_offset, hit>>
  /\ UNCHANGED <<buildVars, searchVars, workerVars>>

\* faulty variant: thread.join() returns without waiting for the thread
Brute_Join_NoWait ==
  /\ bpc = "join"
  /\ IF thread_itr < number_of_threads
     THEN /\ thread_itr' = thread_itr + 1
          /\ bpc' = bpc
     ELSE /\ thread_itr' = 0
          /\ bpc' = "aggregate"
  /\ UNCHANGED <<bf_query, number_of_threads, bf_chunk_size, start_offset,
                 end_offset, threads, thread_start_node_offset, thread_hit,
                 bf_start_node_offset, hit>>
  /\ UNCHANGED <<buildVars, searchVars, workerVars>>

\* lines 375-377: thread.join() returns once the thread has finished
Brute_Join ==
  /\ bpc = "join"
  /\ IF thread_itr < number_of_threads
     THEN /\ threads[thread_itr + 1].node_itr >= threads[thread_itr + 1].end_offset
          /\ thread_itr' = thread_itr + 1
          /\ bpc' = bpc
     ELSE /\ thread_itr' = 0
          /\ bpc' = "aggregate"
  /\ UNCHANGED <<bf_query, number_of_threads, bf_chunk_size, start_offset,
                 end_offset, threads, thread_start_node_offset, thread_hit,
                 bf_start_node_offset, hit>>
  /\ UNCHANGED <<buildVars, searchVars, workerVars>>

\* lines 379-384: one turn of the loop that concatenates and sums
Brute_Aggregate ==
  /\ bpc = "aggregate"
  /\ IF thread_itr < number_of_threads
     THEN /\ bf_start_node_offset' =
               bf_start_node_offset \o thread_start_node_offset[thread_itr]
          /\ hit' = hit + thread_hit[thread_itr]
          /\ thread_itr' = thread_itr + 1
          /\ bpc' = bpc
     ELSE /\ bpc' = "sort"
          /\ UNCHANGED <<bf_start_node_offset, hit, thread_itr>>
  /\ UNCHANGED <<bf_query, number_of_threads, bf_chunk_size, start_offset,
                 end_offset, threads, thread_start_node_offset, thread_hit>>
  /\ UNCHANGED <<buildVars, searchVars, workerVars>>

\* s with x inserted before the first larger element
RECURSIVE InsertSorted(_, _)
InsertSorted(s, x) ==
  IF s = <<>> THEN <<x>>
  ELSE IF x <= Head(s) THEN <<x>> \o s
  ELSE <<Head(s)>> \o InsertSorted(Tail(s), x)

\* std::sort(begin, end)
RECURSIVE StdSort(_)
StdSort(s) == IF s = <<>> THEN <<>> ELSE InsertSorted(StdSort(Tail(s)), Head(s))

\* line 387, and the return
Brute_Sort ==
  /\ bpc = "sort"
  /\ bf_start_node_offset' = StdSort(bf_start_node_offset)
  /\ bpc' = "done"
  /\ UNCHANGED <<bf_query, number_of_threads, bf_chunk_size, start_offset,
                 end_offset, thread_itr, threads, thread_start_node_offset,
                 thread_hit, hit>>
  /\ UNCHANGED <<buildVars, searchVars, workerVars>>

NextBrute ==
  \/ MoveTreeToGPU
  \/ Brute_Begin
  \/ Brute_Launch
  \/ Thread_BruteForce
  \/ Brute_Join
  \/ Brute_Aggregate
  \/ Brute_Sort

SpecBrute == BuiltInit /\ [][NextBrute]_vars

\* Search of one index, then BruteForceSearchOnCPU on the same index
NextCross ==
  \/ MoveTreeToGPU
  \/ SetChunkSize
  \/ Search_Begin
  \/ Search_Query
  \/ Search_Traverse
  \/ Search_Resize
  \/ Search_Launch
  \/ Search_GetHitCount
  \/ Search_Memcpy
  \/ Device_SetHitCount
  \/ Device_Scan
  \/ Device_GetHitCount
  \/ Brute_Begin
  \/ Brute_Launch
  \/ Thread_BruteForce
  \/ Brute_Join
  \/ Brute_Aggregate
  \/ Brute_Sort

SpecCross == BuiltInit /\ [][NextCross]_vars

\* ------------------- global_ParallelScanning_Leafnodes, worker by worker
\* MasterThreadOnly
MasterThreadOnly(tid) == tid = 0

\* faulty variant: every worker counts in slot 0
OwnSlot_Zero(tid) == 0

\* lines 448, 463: the slot of t_hit worker tid writes
OwnSlot(tid) == tid

\* faulty variant: the loop advances by one leaf node
LoopStep_One(itr) == itr + 1

\* line 455: node_itr += GetNumberOfBlocks()
LoopStep(itr) == itr + NumberOfBlocks

\* __syncthreads(): a worker leaves the barrier it has reached once every
\* worker of its group has reached as many barriers
BarrierOpen(b, t) == \A u \in Workers : barriers[b][u] >= barriers[b][t]

\* a write of worker (b, t) to slot of counter var
WriteBy(var, slot, b, t) ==
  [var |-> var, slot |-> slot, bid |-> b, tid |-> t,
   at |-> wpc[b][t], barriers |-> barriers[b][t]]

\* what the worker-level steps leave alone of Search's state
scanFrame ==
  <<chunk_size, spc, query, number_of_search, query_itr, visited_leafIndex,
    node_visit_count, jump_count, start_node_index, start_node_offset,
    total_node_visit_count_cpu, total_hit, total_node_visit_count_gpu, h_hit,
    h_node_visit_count, d_hit, d_node_visit_count, stream, launched, completed,
    touched>>

\* <<<number_of_batch, GetNumberOfThreads()>>>(_query, start_node_offset,
\* chunk_size): every worker of every group enters the kernel; the shared
\* t_hit holds whatever it held
Kernel_Launch ==
  /\ pc = "return true"
  /\ spc = "idle"
  /\ bpc = "idle"
  /\ kernel_args = NoKernel
  /\ \E q \in Queries : \E s \in 0..(leaf_node_count - 1) :
       \E c \in 0..(leaf_node_count - s) :
         kernel_args' = Kernel("global_ParallelScanning_Leafnodes", q, s, c)
  /\ \E g \in Garbage : t_hit' = [b \in Blocks |-> [t \in Workers |-> g]]
  /\ wpc' = [b \in Blocks |-> [t \in Workers |-> "init"]]
  /\ node_itr' = [b \in Blocks |-> [t \in Workers |-> 0]]
  /\ barriers' = [b \in Blocks |-> [t \in Workers |-> 0]]
  /\ writes' = {}
  /\ tested' = [b \in Blocks |-> [t \in Workers |-> <<>>]]
  /\ UNCHANGED <<g_hit, g_node_visit_count>>
  /\ UNCHANGED scanFrame
  /\ UNCHANGED <<buildVars, bruteVars>>

\* lines 438-453: t_hit[tid] = 0, up to the first __syncthreads()
Worker_Init ==
  /\ \E b \in Blocks : \E t \in Workers :
       /\ wpc[b][t] = "init"
       /\ t_hit' = [t_hit EXCEPT ![b][OwnSlot(t)] = 0]
       /\ writes' = writes \cup {WriteBy("t_hit", OwnSlot(t), b, t)}
       /\ barriers' = [barriers EXCEPT ![b][t] = @ + 1]
       /\ wpc' = [wpc EXCEPT ![b][t] = "sync453"]
  /\ UNCHANGED <<kernel_args, node_itr, tested, g_hit, g_node_visit_count>>
  /\ UNCHANGED scanFrame
  /\ UNCHANGED <<buildVars, bruteVars>>

\* line 455: a worker leaves the barrier of line 453 or 465 and tests the
\* loop condition; when the loop is over it goes to the __syncthreads() of
\* line 469
Worker_LoopHead ==
  /\ \E b \in Blocks : \E t \in Workers :
       /\ wpc[b][t] \in {"sync453", "sync465"}
       /\ BarrierOpen(b, t)
       /\ LET itr == IF wpc[b][t] = "sync453" THEN b ELSE LoopStep(node_itr[b][t]) IN
          /\ node_itr' = [node_itr EXCEPT ![b][t] = itr]
          /\ IF itr < kernel_args.chunk
             THEN /\ wpc' = [wpc EXCEPT ![b][t] = "body"]
                  /\ UNCHANGED barriers
             ELSE /\ wpc' = [wpc EXCEPT ![b][t] = "sync469"]
                  /\ barriers' = [barriers EXCEPT ![b][t] = @ + 1]
  /\ UNCHANGED <<kernel_args, t_hit, writes, tested, g_hit, g_node_visit_count>>
  /\ UNCHANGED scanFrame
  /\ UNCHANGED <<buildVars, bruteVars>>

\* lines 457-465: one turn of the loop, up to its __syncthreads(); the leaf
\* cursor first_leaf_node + start_node_offset + bid, advanced by
\* GetNumberOfBlocks() each turn, stands at start_node_offset + node_itr
Worker_Body ==
  /\ \E b \in Blocks : \E t \in Workers :
       /\ wpc[b][t] = "body"
       /\ LET leaf == LeafAt(g_node_soa_ptr, kernel_args.start + node_itr[b][t])
              found == t < leaf.branch_count /\ IsOverlapSOA(kernel_args.query, leaf, t)
              counted == IF MasterThreadOnly(t)
                         THEN {WriteBy("g_node_visit_count", b, b, t)} ELSE {}
              marked == IF found THEN {WriteBy("t_hit", OwnSlot(t), b, t)} ELSE {}
          IN /\ g_node_visit_count' =
                  IF MasterThreadOnly(t)
                  THEN [g_node_visit_count EXCEPT ![b] = @ + 1]
                  ELSE g_node_visit_count
             /\ t_hit' = IF found THEN [t_hit EXCEPT ![b][OwnSlot(t)] = @ + 1] ELSE t_hit
             /\ writes' = writes \cup counted \cup marked
       /\ tested' = [tested EXCEPT ![b][t] =
                       Append(@, kernel_args.start + node_itr[b][t])]
       /\ barriers' = [barriers EXCEPT ![b][t] = @ + 1]
       /\ wpc' = [wpc EXCEPT ![b][t] = "sync465"]
  /\ UNCHANGED <<kernel_args, node_itr, g_hit>>
  /\ UNCHANGED scanFrame
  /\ UNCHANGED <<buildVars, bruteVars>>

\* lines 469-474: a worker leaves the last __syncthreads();
\* ParallelReduction folds t_hit into t_hit[0]
Worker_Reduce ==
  /\ \E b \in Blocks : \E t \in Workers :
       /\ wpc[b][t] = "sync469"
       /\ BarrierOpen(b, t)
       /\ IF MasterThreadOnly(t)
          THEN /\ t_hit' = [t_hit EXCEPT ![b][0] =
                              SumSeq([i \in 1..NumberOfThreads |-> t_hit[b][i - 1]])]
               /\ writes' = writes \cup {WriteBy("t_hit", 0, b, t)}
               /\ wpc' = [wpc EXCEPT ![b][t] = "publish"]
          ELSE /\ wpc' = [wpc EXCEPT ![b][t] = "done"]
               /\ UNCHANGED <<t_hit, writes>>
  /\ UNCHANGED <<kernel_args, node_itr, barriers, tested, g_hit, g_node_visit_count>>
  /\ UNCHANGED scanFrame
  /\ UNCHANGED <<buildVars, bruteVars>>

\* lines 476-482: the master worker adds the fold to g_hit[bid]
Worker_Publish ==
  /\ \E b \in Blocks : \E t \in Workers :
       /\ wpc[b][t] = "publish"
       /\ g_hit' = [g_hit EXCEPT ![b] = @ + t_hit[b][0]]
       /\ writes' = writes \cup {WriteBy("g_hit", b, b, t)}
       /\ wpc' = [wpc EXCEPT ![b][t] = "done"]
  /\ UNCHANGED <<kernel_args, node_itr, barriers, t_hit, tested, g_node_visit_count>>
  /\ UNCHANGED scanFrame
  /\ UNCHANGED <<buildVars, bruteVars>>

NextKernel ==
  \/ MoveTreeToGPU
  \/ Kernel_Launch
  \/ Worker_Init
  \/ Worker_LoopHead
  \/ Worker_Body
  \/ Worker_Reduce
  \/ Worker_Publish

SpecKernel == LiveInit /\ [][NextKernel]_vars

\* ================================================================ claims
\* Build has left DumpFromFile / DumpToFile behind
BuildPastDump == pc \in {"MoveTreeToGPU", "return true", "aborted"}

Ran(stage) == \E i \in 1..Len(stages) : stages[i] = stage

\* what a node holds besides the raw child offsets of an internal node
NodeContent(n) ==
  IF n.type = NODE_TYPE_INTERNAL
  THEN [type |-> n.type,
        branches |-> [j \in 1..Len(n.branches) |->
           [index |-> n.branches[j].index, min |-> n.branches[j].min,
            max |-> n.branches[j].max]]]
  ELSE [type |-> n.type,
        branches |-> [j \in 1..Len(n.branches) |->
           [index |-> n.branches[j].index, min |-> n.branches[j].min,
            max |-> n.branches[j].max, data |-> n.branches[j].child_offset]]]

IsNodeCell(c) == c.tag = "Node"

\* the Node records of the index file, in file order
NodeCells == SelectSeq(index_file, IsNodeCell)

\* C1: round trip. After DumpFromFile has loaded the file DumpToFile wrote,
\* the counts equal those of the dumped tree, array element k holds the
\* content of the live node at breadth-first position k, each of its
\* branches refers to the array element at the breadth-first position of
\* the live child, and the Node_SOA records equal the dumped ones.
C1_RoundTrip ==
  (loaded /\ BuildPastDump) =>
    /\ level_node_count = dumped.level_node_count
    /\ total_node_count = dumped.total_node_count
    /\ leaf_node_count = dumped.leaf_node_count
    /\ \A k \in 1..Len(dumped.nodes) :
         LET a == node_ptr + (k - 1) * SizeofNode IN
         /\ a \in DOMAIN heap
         /\ NodeContent(heap[a]) = NodeContent(dumped.nodes[k])
         /\ \A j \in 1..Len(dumped.children[k]) :
              GetBranchChildNode(heap, a, j - 1)
                = node_ptr + dumped.children[k][j] * SizeofNode
    /\ node_soa_ptr = dumped.soa

\* a tree of height 3, scattered on the heap when dumped, has been loaded
C1_Witness ==
  /\ loaded
  /\ pc = "return true"
  /\ Len(level_node_count) >= 3
  /\ dumped.bfs[1] # HeapBase
  /\ node_ptr = LoadBase

\* C2: serialization non-mutation. While DumpToFile runs only the node being
\* written differs from the tree as it was before the dump; the backup list
\* holds that node's original offsets in child order when the node is
\* written and is empty before the next node is popped; once DumpToFile has
\* returned the whole live tree is as before.
C2_NonMutation ==
  Ran("DumpToFile") =>
    /\ \A a \in DOMAIN heap :
         (a # node \/ pc \notin {"PatchChild", "WriteNode", "RestoreChild"})
           => heap[a] = dumped.heap[a]
    /\ DOMAIN heap = DOMAIN dumped.heap
    /\ (pc = "Pop") => original_child_offset = <<>>
    /\ (pc = "WriteNode" /\ GetNodeType(heap, node) = NODE_TYPE_INTERNAL) =>
         original_child_offset =
           [j \in 1..Len(dumped.heap[node].branches) |->
              dumped.heap[node].branches[j].child_offset]

\* DumpToFile has returned after patching a non-root internal node of a
\* scattered tree
C2_Witness ==
  /\ Ran("DumpToFile")
  /\ pc = "MoveTreeToGPU"
  /\ Len(level_node_count) >= 3
  /\ node_ptr # HeapBase

\* C8 as stated: the offset written for branch j of a node is the
\* breadth-first position of the child times sizeof(Node).
C8_OffsetIsChildIndex ==
  \A k \in 1..Len(NodeCells) :
    \A j \in 1..Len(dumped.children[k]) :
      NodeCells[k].val.branches[j].child_offset
        = dumped.children[k][j] * SizeofNode

\* C8 amended: the offset written for branch j of the node at breadth-first
\* position p is (position of the child - p) * sizeof(Node): the distance
\* from the record itself to the child's record.
C8_OffsetIsDistance ==
  \A k \in 1..Len(NodeCells) :
    \A j \in 1..Len(dumped.children[k]) :
      NodeCells[k].val.branches[j].child_offset
        = (dumped.children[k][j] - (k - 1)) * SizeofNode

\* a non-root internal node has been written
C8_Witness ==
  \E k \in 2..Len(NodeCells) :
    /\ NodeCells[k].val.type = NODE_TYPE_INTERNAL
    /\ Len(dumped.children[k]) = NumberOfDegrees


DumpPcs ==
  {"WriteHeight", "WriteLevel", "WriteTotal", "WriteLeafCount", "Pop",
   "PatchChild", "WriteNode", "RestoreChild", "Clear", "WriteSOA"}

\* level (root = 1) of the node at breadth-first position k - 1
RECURSIVE DepthOf(_, _)
DepthOf(children, k) ==
  IF k <= 1 THEN 1
  ELSE LET parent == CHOOSE q \in 1..(k - 1) :
                       \E j \in 1..Len(children[q]) : children[q][j] = k - 1
       IN 1 + DepthOf(children, parent)

\* C10: dump order and count. A completed index file holds height, the
\* level node counts root first, total_node_count, leaf_node_count, then one
\* Node record per node reachable from the root in breadth-first order
\* (total_node_count of them, level_node_count[l] of level l, levels in
\* order), then the leaf_node_count Node_SOA records; every fread of
\* DumpFromFile gets records of the kind it reads, and a load consumes the
\* whole file.
C10_DumpOrder ==
  /\ (file_exists /\ pc \notin DumpPcs) =>
       LET h == Len(dumped.level_node_count)
           t == dumped.total_node_count
           l == dumped.leaf_node_count
       IN /\ Len(index_file) = 1 + h + 2 + t + l
          /\ index_file[1].tag = "height" /\ index_file[1].val = h
          /\ \A i \in 1..h :
               /\ index_file[1 + i].tag = "level_node_count"
               /\ index_file[1 + i].val = dumped.level_node_count[i]
          /\ index_file[h + 2].tag = "total_node_count"
          /\ index_file[h + 2].val = t
          /\ index_file[h + 3].tag = "leaf_node_count"
          /\ index_file[h + 3].val = l
          /\ Len(dumped.bfs) = t
          /\ \A k \in 1..t :
               /\ index_file[h + 3 + k].tag = "Node"
               /\ NodeContent(index_file[h + 3 + k].val) = NodeContent(dumped.nodes[k])
               /\ k > 1 => DepthOf(dumped.children, k - 1) <= DepthOf(dumped.children, k)
          /\ \A d \in 1..h :
               Cardinality({k \in 1..t : DepthOf(dumped.children, k) = d})
                 = dumped.level_node_count[d]
          /\ \A k \in 1..l :
               /\ index_file[h + 3 + t + k].tag = "Node_SOA"
               /\ index_file[h + 3 + t + k].val = dumped.soa[k]
  /\ \A e \in 1..Len(read_log) :
       \A g \in 1..Len(read_log[e].got) : read_log[e].got[g] = read_log[e].want
  /\ loaded => fpos = Len(index_file) + 1

\* a file of a tree of height 3 has been written and read back
C10_Witness ==
  /\ loaded
  /\ Len(read_log) = 5 + Len(dumped.level_node_count)
  /\ Len(dumped.level_node_count) = 3
  /\ Len(index_file) = 1 + 3 + 2 + dumped.total_node_count + dumped.leaf_node_count

BuildStages ==
  {"CreateBranches", "AssignHilbertIndexToBranches", "Sort", "Top_Down",
   "CopyBranchToNodeSOA"}

FreshStages ==
  <<"DumpFromFile", "CreateBranches", "AssignHilbertIndexToBranches", "Sort",
    "Top_Down", "CopyBranchToNodeSOA", "DumpToFile", "MoveTreeToGPU">>

LoadStages == <<"DumpFromFile", "MoveTreeToGPU">>

\* what holds of every state of a Build
C5_State ==
  /\ (pc = "return true") =>
       /\ stages = IF loaded THEN LoadStages ELSE FreshStages
       /\ h2d_copies = 1
       /\ g_node_soa_ptr = node_soa_ptr
       /\ Len(g_node_soa_ptr) = leaf_node_count
  /\ (pc = "CreateBranches") =>
       /\ ~loaded
       /\ level_node_count = <<>> /\ total_node_count = 0 /\ leaf_node_count = 0
       /\ node_ptr = 0 /\ heap = NoHeap /\ node_soa_ptr = <<>>
  /\ (dumped # NoDump /\ ~Ran("DumpToFile") /\ pc # "Build") =>
       /\ \A i \in 1..Len(stages) : stages[i] \notin BuildStages
       /\ pc \in {"return true", "aborted"} => loaded

\* what holds of every step of a Build
C5_Step ==
  /\ (pc = "Build" /\ pc' # pc) =>
       /\ (~file_exists) <=> (pc' = "CreateBranches")
       /\ file_exists <=> (pc' = "ReadHeight")
       /\ (~file_exists) =>
            UNCHANGED <<level_node_count, total_node_count, leaf_node_count,
                        node_ptr, heap, node_soa_ptr, file_exists, index_file>>
  /\ (Len(stages') > Len(stages) /\ stages'[Len(stages')] \in BuildStages \cup {"DumpToFile"})
       => (~loaded /\ stages[1] = "DumpFromFile" /\ pc \notin {"Build", "ReadHeight"})
  /\ (pc' = "return true" /\ pc # pc') => (pc = "MoveTreeToGPU" /\ ret')

\* C5: load-or-build. Build runs the build stages and DumpToFile exactly
\* when the index file is absent; DumpFromFile on an absent file returns
\* false and changes none of the tree's fields; once a Build has dumped the
\* index a later Build loads it and runs no build stage; on both paths
\* MoveTreeToGPU(0, leaf_node_count) runs once, last, and Build returns true.
C5_LoadOrBuild == []C5_State /\ [][C5_Step]_vars

\* a later Build has loaded the index an earlier one dumped, and returned
C5_Witness ==
  /\ session = 2
  /\ pc = "return true"
  /\ loaded
  /\ stages = LoadStages
  /\ leaf_node_count >= 2


IsScan(k) == k.kernel = "global_ParallelScanning_Leafnodes"

\* what holds of every state of a Search
C4_State ==
  /\ \A i \in 1..Len(launched) :
       /\ launched[i].start >= 0
       /\ launched[i].start + launched[i].chunk <= leaf_node_count
  /\ \A i \in touched : 0 <= i /\ i < leaf_node_count /\ i < Len(g_node_soa_ptr)
  /\ (spc = "launch") => start_node_offset + chunk_size <= leaf_node_count

\* what holds of the resize step
C4_Step ==
  (spc = "resize" /\ spc' = "launch") =>
    chunk_size' = IF start_node_offset' + chunk_size > leaf_node_count
                  THEN leaf_node_count - start_node_offset'
                  ELSE chunk_size

\* C4: boundary. Every scan Search launches has start_node_offset +
\* chunk_size <= leaf_node_count, every leaf record a worker dereferences
\* has an index in [0, leaf_node_count), and a jump whose start_node_offset
\* + chunk_size would exceed leaf_node_count is clipped to the
\* leaf_node_count - start_node_offset nodes that remain.
C4_Boundary == []C4_State /\ [][C4_Step]_vars

\* a scan clipped from 2 leaf nodes to the last one has run
C4_Witness ==
  \E i \in 2..Len(completed) :
    /\ completed[1].chunk = 2
    /\ completed[i].chunk = 1
    /\ completed[i].start + 1 = leaf_node_count
    /\ (leaf_node_count - 1) \in touched

C7_State ==
  /\ h2d_copies <= 1
  /\ (spc # "idle") => (h2d_copies = 1 /\ g_node_soa_ptr = node_soa_ptr)

\* what holds of every step of Search and of the device while Search runs
C7_Step ==
  (spc # "idle" \/ spc' # "idle") =>
    UNCHANGED <<heap, node_ptr, node_soa_ptr, g_node_soa_ptr, level_node_count,
                total_node_count, leaf_node_count, h2d_copies>>

\* C7: Search leaves the index unchanged. No step of Search writes the host
\* Node array, the host or device Node_SOA buffer or the three counts, and
\* none copies the leaf buffer to the device: that copy is made once, by
\* Build's MoveTreeToGPU, however many queries and jumps follow.
C7_IndexUnchanged == []C7_State /\ [][C7_Step]_vars

\* a batch of two queries with three scans has been searched
C7_Witness ==
  /\ spc = "done"
  /\ number_of_search = 2
  /\ Len(completed) >= 3
  /\ h2d_copies = 1


\* the leaf nodes thread t (1-based) was launched with
RangeOf(t) == threads[t].end_offset - threads[t].start_offset

BruteLaunched == bpc \in {"join", "aggregate", "sort", "done"}

\* C9 as stated: threads 0..T-2 get floor(L/T) leaf nodes each and the
\* last thread gets floor(L/T) + (L mod T).
C9_LastAbsorbs ==
  BruteLaunched =>
    \A t \in 1..number_of_threads :
      RangeOf(t) = IF t = number_of_threads
                   THEN (leaf_node_count \div number_of_threads)
                          + (leaf_node_count % number_of_threads)
                   ELSE leaf_node_count \div number_of_threads

\* C9 amended: the first thread (thread 0) gets floor(L/T) + (L mod T) leaf
\* nodes and every other thread floor(L/T); the ranges are consecutive,
\* start at 0 and end at L.
C9_FirstAbsorbs ==
  BruteLaunched =>
    /\ Len(threads) = number_of_threads
    /\ threads[1].start_offset = 0
    /\ threads[number_of_threads].end_offset = leaf_node_count
    /\ \A t \in 1..number_of_threads :
         /\ RangeOf(t) = IF t = 1
                         THEN (leaf_node_count \div number_of_threads)
                                + (leaf_node_count % number_of_threads)
                         ELSE leaf_node_count \div number_of_threads
         /\ t > 1 => threads[t].start_offset = threads[t - 1].end_offset

\* two threads have been launched over three leaf nodes
C9_Witness ==
  /\ BruteLaunched
  /\ number_of_threads = 2
  /\ leaf_node_count = 3
  /\ RangeOf(1) = 2
  /\ RangeOf(2) = 1

\* C3: cross-validation. For one index and one query the hit count Search
\* reports equals the hit count BruteForceSearchOnCPU computes.
C3_CrossValidation ==
  (spc = "done" /\ bpc = "done" /\ number_of_search = 1 /\ bf_query = query[1])
    => total_hit = hit


\* the host traversal has just returned: to the resize of a jump, or to the
\* head of the query loop with 0
Traversed == spc = "resize" \/ (spc = "query" /\ query_itr > 0)

\* the query the host traversal last ran for
TraversedQuery == IF spc = "resize" THEN query[query_itr + 1] ELSE query[query_itr]

\* the branch numbers (root first) that lead from node a to a leaf node
\* through internal branches that overlap q and have an index past v
RECURSIVE OpenPaths(_, _, _, _)
OpenPaths(h, a, q, v) ==
  IF h[a].type = NODE_TYPE_LEAF THEN {<<>>}
  ELSE UNION {{<<j>> \o p : p \in OpenPaths(h, a + h[a].branches[j].child_offset, q, v)} :
                j \in {i \in 1..Len(h[a].branches) :
                         /\ h[a].branches[i].index > v
                         /\ q.min <= h[a].branches[i].max
                         /\ h[a].branches[i].min <= q.max}}

\* the leaf node a path ends at
RECURSIVE NodeAtPath(_, _, _)
NodeAtPath(h, a, p) ==
  IF p = <<>> THEN a ELSE NodeAtPath(h, a + h[a].branches[Head(p)].child_offset, Tail(p))

\* the branch numbers of leaf node a whose index is past v
LateBranches(h, a, v) == {j \in 1..Len(h[a].branches) : h[a].branches[j].index > v}

\* depth-first order of two paths of one length
PathBefore(p, r) ==
  \E i \in 1..Len(p) :
    /\ p[i] < r[i]
    /\ \A k \in 1..(i - 1) : p[k] = r[k]

\* the value C11 describes for a traversal from the root
ExpectedStart(h, root, q, v) ==
  LET open == {p \in OpenPaths(h, root, q, v) : LateBranches(h, NodeAtPath(h, root, p), v) # {}}
  IN IF open = {} THEN 0
     ELSE LET first == CHOOSE p \in open : \A r \in open \ {p} : PathBefore(p, r)
              leaf == NodeAtPath(h, root, first)
          IN h[leaf].branches[SetMin(LateBranches(h, leaf, v))].index

\* C11: traversal result. What TraverseInternalNodes returned for the root,
\* the query and visited_leafIndex is 0 exactly when no leaf node reachable
\* through overlapping internal branches with an index past
\* visited_leafIndex has a branch with an index past it; otherwise it is
\* the index of the first such branch of the first such leaf node in
\* depth-first order, and so is greater than visited_leafIndex.
C11_TraversalResult ==
  Traversed =>
    /\ start_node_index = ExpectedStart(heap, node_ptr, TraversedQuery, visited_leafIndex)
    /\ (spc = "resize") => start_node_index > visited_leafIndex
    /\ (spc = "query") => start_node_index = 0

\* a second jump of a query starts past the first leaf node, although the
\* first leaf node is reachable too
C11_Witness ==
  /\ spc = "resize"
  /\ visited_leafIndex > 0
  /\ start_node_index > visited_leafIndex
  /\ Len(level_node_count) >= 2
  /\ Cardinality(OpenPaths(heap, node_ptr, TraversedQuery, 0)) >= 2


\* the jump loop of a query is running, or has just ended
InQuery ==
  spc \in {"traverse", "resize", "launch"} \/ (spc = "query" /\ query_itr > 0)

\* the scans launched so far for that query, in launch order
QueryJumps == SubSeq(launched, Len(launched) - jump_count + 1, Len(launched))

\* C12: no re-visit. With chunk_size >= 1, the leaf ranges
\* [start_node_offset, start_node_offset + chunk_size) of the jumps of one
\* query are pairwise disjoint and their start offsets strictly increase:
\* each jump starts at or past the end of every jump before it.
C12_NoRevisit ==
  (InQuery /\ chunk_size >= 1) =>
    \A i \in 1..Len(QueryJumps) : \A j \in (i + 1)..Len(QueryJumps) :
      /\ QueryJumps[i].start < QueryJumps[j].start
      /\ QueryJumps[i].start + QueryJumps[i].chunk <= QueryJumps[j].start

\* a query has made three jumps of one leaf node each
C12_Witness ==
  /\ InQuery
  /\ chunk_size = 1
  /\ Len(QueryJumps) = 3
  /\ QueryJumps[1].start = 0
  /\ QueryJumps[3].start = 2

\* the leaf nodes that hold a branch overlapping q
OverlappingLeaves(q) ==
  {i \in 0..(leaf_node_count - 1) :
     \E c \in 1..node_soa_ptr[i + 1].branch_count :
       q.min <= node_soa_ptr[i + 1].max[c] /\ node_soa_ptr[i + 1].min[c] <= q.max}

\* C13: no missed candidates. With chunk_size >= 1, when the jump loop of a
\* query has ended every leaf node that holds a branch overlapping the
\* query lies inside the scanned range of one of the jumps of that query.
C13_NoMiss ==
  (spc = "query" /\ query_itr > 0 /\ chunk_size >= 1) =>
    \A i \in OverlappingLeaves(query[query_itr]) :
      \E j \in 1..Len(QueryJumps) :
        QueryJumps[j].start <= i /\ i < QueryJumps[j].start + QueryJumps[j].chunk

\* the second query of a batch has ended with a chunk_size the first query
\* left clipped, its overlapping leaf nodes lying in two separate jumps
C13_Witness ==
  /\ spc = "query"
  /\ query_itr = 2
  /\ chunk_size = 1
  /\ Len(QueryJumps) >= 2
  /\ launched[1].chunk = 2
  /\ Cardinality(OverlappingLeaves(query[2])) >= 2


\* C14: per-query termination. If chunk_size >= 1 when Search starts, no
\* query makes more than leaf_node_count jumps, and the query loop reaches
\* its end with all number_of_search queries processed (so the jump loop
\* of every query has exited).
C14_Termination ==
  /\ []((InQuery /\ chunk_size >= 1) => jump_count <= leaf_node_count)
  /\ ((spc = "query" /\ query_itr = 0 /\ chunk_size >= 1)
        ~> (spc = "get_hit_count" /\ query_itr = number_of_search))

\* both queries of a batch have been processed, one of them in
\* leaf_node_count jumps
C14_Witness ==
  /\ spc = "get_hit_count"
  /\ query_itr = 2
  /\ number_of_search = 2
  /\ chunk_size >= 1
  /\ leaf_node_count = 3
  /\ \/ jump_count = leaf_node_count
     \/ Len(launched) - jump_count = leaf_node_count


\* what holds of every state of a Search
C15_State ==
  /\ \A i \in 1..Len(launched) : \A j \in (i + 1)..Len(launched) :
       launched[j].chunk <= launched[i].chunk
  /\ (spc # "idle" /\ launched # <<>>) =>
       chunk_size <= launched[Len(launched)].chunk
  /\ (spc = "done" /\ launched # <<>>) =>
       chunk_size = launched[Len(launched)].chunk

\* what holds of every step once Search has begun
C15_Step ==
  (spc # "idle") =>
    /\ chunk_size' <= chunk_size
    /\ (chunk_size' # chunk_size) =>
         /\ spc = "resize"
         /\ start_node_offset' + chunk_size > leaf_node_count
         /\ chunk_size' = leaf_node_count - start_node_offset'
    /\ (spc = "launch" /\ spc' = "traverse") =>
         launched'[Len(launched')].chunk = chunk_size

\* C15: sticky chunk size. During Search chunk_size never increases; it
\* changes only when a jump clips it to leaf_node_count -
\* start_node_offset, every later jump of the same and of the following
\* queries is launched with the reduced value, and that value is what
\* chunk_size holds once Search has returned.
C15_StickyChunk == []C15_State /\ [][C15_Step]_vars

\* Search has returned: the first query clipped chunk_size from 2 to 1 and
\* the second query made all its jumps with 1
C15_Witness ==
  /\ spc = "done"
  /\ number_of_search = 2
  /\ chunk_size = 1
  /\ Len(launched) >= 3
  /\ launched[1].chunk = 2
  /\ launched[1].query = query[1]
  /\ jump_count >= 1
  /\ \A j \in 1..Len(QueryJumps) : QueryJumps[j].chunk = 1


\* the node visits of the traversal that follows scan k
VisitsAfter(k) ==
  TraverseInternalNodes(heap, node_ptr, k.query,
                        (k.start + k.chunk) * NumberOfDegrees).visits

\* the node visits TraverseInternalNodes made in this Search: for every
\* query one traversal from visited_leafIndex 0 and one after each jump
ActualVisits ==
  SumSeq([i \in 1..number_of_search |->
            TraverseInternalNodes(heap, node_ptr, query[i], 0).visits])
  + SumSeq([i \in 1..Len(launched) |-> VisitsAfter(launched[i])])

\* C20: host visit counter. When Search has returned,
\* total_node_visit_count_cpu equals the number of node visits
\* TraverseInternalNodes made, summed over all jumps of all queries.
C20_HostVisitTotal ==
  (spc = "done") => total_node_visit_count_cpu = ActualVisits


\* the branches of leaf node i (0-based) whose box overlaps q
PairsAt(q, i) ==
  {c \in 1..node_soa_ptr[i + 1].branch_count :
     q.min <= node_soa_ptr[i + 1].max[c] /\ node_soa_ptr[i + 1].min[c] <= q.max}

\* one entry i per overlapping branch of leaf node i, for the leaf nodes
\* from i on, in ascending order
RECURSIVE OffsetsFrom(_, _)
OffsetsFrom(q, i) ==
  IF i >= leaf_node_count THEN <<>>
  ELSE [c \in 1..Cardinality(PairsAt(q, i)) |-> i] \o OffsetsFrom(q, i + 1)

\* C18: brute-force result. When BruteForceSearchOnCPU has returned, hit is
\* the number of (leaf node, branch) pairs of the whole leaf range whose
\* box overlaps the query, and the offset list holds the leaf node offset
\* once per such pair, in ascending order.
C18_BruteResult ==
  (bpc = "done") =>
    /\ hit = Len(OffsetsFrom(bf_query, 0))
    /\ bf_start_node_offset = OffsetsFrom(bf_query, 0)


\* thread t (1-based) has scanned its whole range
Finished(t) == threads[t].node_itr >= threads[t].end_offset

\* what holds of every state of BruteForceSearchOnCPU
C19_State ==
  /\ \A t \in 1..Len(threads) : \A u \in (t + 1)..Len(threads) :
       {n \in 0..leaf_node_count :
          /\ threads[t].start_offset <= n /\ n < threads[t].end_offset
          /\ threads[u].start_offset <= n /\ n < threads[u].end_offset} = {}
  /\ (bpc \in {"aggregate", "sort", "done"}) =>
       /\ Len(threads) = number_of_threads
       /\ \A t \in 1..Len(threads) : Finished(t)

\* what holds of every step between the first launch and the return
C19_Step ==
  (bpc # "idle" /\ bpc' = bpc /\ Len(threads') = Len(threads)) =>
    \A t \in 1..Len(threads) :
      \/ /\ threads'[t] = threads[t]
         /\ thread_start_node_offset'[t - 1] = thread_start_node_offset[t - 1]
         /\ thread_hit'[t - 1] = thread_hit[t - 1]
      \/ /\ threads'[t].node_itr = threads[t].node_itr + 1
         /\ threads'[t].node_itr <= threads[t].end_offset
         /\ \A u \in 1..Len(threads) \ {t} :
              /\ threads'[u] = threads[u]
              /\ thread_start_node_offset'[u - 1] = thread_start_node_offset[u - 1]
              /\ thread_hit'[u - 1] = thread_hit[u - 1]
         /\ UNCHANGED <<node_soa_ptr, g_node_soa_ptr, heap, bf_query, hit,
                        bf_start_node_offset, leaf_node_count>>

\* C19: brute-force thread isolation. A step of thread i writes only
\* thread_start_node_offset[i], thread_hit[i] and its own loop variable,
\* and leaves node_soa_ptr and the query as they are; the leaf ranges of
\* different threads are disjoint; and the main thread aggregates the
\* per-thread vectors and counters only once every thread has finished and
\* been joined.
C19_Isolation == []C19_State /\ [][C19_Step]_vars

\* two threads over three leaf nodes: the second has finished with a match
\* while the first, with a match too, is still scanning
C19_Witness ==
  /\ bpc \in {"launch", "join"}
  /\ Len(threads) = 2
  /\ leaf_node_count = 3
  /\ threads[1].node_itr = 1
  /\ ~Finished(1)
  /\ Finished(2)
  /\ thread_start_node_offset[0] # <<>>
  /\ thread_start_node_offset[1] # <<>>


KernelRunning == kernel_args # NoKernel

KernelDone == KernelRunning /\ \A b \in Blocks : \A t \in Workers : wpc[b][t] = "done"

AtBarrier(b, t) == wpc[b][t] \in {"sync453", "sync465", "sync469"}

\* the leaf nodes of the chunk with relative index b, b+B, b+2B, ...
StrideOf(b) ==
  {kernel_args.start + n : n \in {m \in 0..(kernel_args.chunk - 1) : m % NumberOfBlocks = b}}

\* C16: strided scan partition. In an invocation with start offset s and
\* chunk size c the i-th leaf node a worker of group b tests is s + b +
\* (i-1)B, inside [s, s+c); workers of one group waiting at their k-th
\* barrier wait at the same barrier in the same loop turn; and when the
\* invocation is over every worker of group b has tested exactly the leaf
\* nodes of its stride, each leaf node of [s, s+c) was tested by exactly
\* one group, and the increments of g_node_visit_count sum to c.
C16_StridedPartition ==
  KernelRunning =>
    /\ \A b \in Blocks : \A t \in Workers :
         /\ \A i \in 1..Len(tested[b][t]) :
              /\ tested[b][t][i] = kernel_args.start + b + (i - 1) * NumberOfBlocks
              /\ tested[b][t][i] < kernel_args.start + kernel_args.chunk
         /\ \A u \in Workers :
              (AtBarrier(b, t) /\ AtBarrier(b, u) /\ barriers[b][t] = barriers[b][u]) =>
                (wpc[b][t] = wpc[b][u] /\ node_itr[b][t] = node_itr[b][u])
    /\ KernelDone =>
         /\ \A b \in Blocks : \A t \in Workers :
              /\ {tested[b][t][i] : i \in 1..Len(tested[b][t])} = StrideOf(b)
              /\ Len(tested[b][t]) = Cardinality(StrideOf(b))
         /\ \A n \in kernel_args.start..(kernel_args.start + kernel_args.chunk - 1) :
              Cardinality({b \in Blocks : n \in StrideOf(b)}) = 1
         /\ SumHits(g_node_visit_count) = kernel_args.chunk
         /\ g_node_visit_count = ScanVisit(kernel_args, Zeros)
         /\ g_hit = ScanHit(g_node_soa_ptr, kernel_args, Zeros)

\* an invocation over three leaf nodes is over: group 0 tested two of them
\* and group 1 the one in between
C16_Witness ==
  /\ KernelDone
  /\ kernel_args.start = 0
  /\ kernel_args.chunk = 3
  /\ tested[0][1] = <<0, 2>>
  /\ tested[1][1] = <<1>>
  /\ g_node_visit_count[0] = 2
  /\ g_node_visit_count[1] = 1

\* every worker of group b is past the loop and its barrier
PastLoop(b) == \A u \in Workers : wpc[b][u] \in {"sync469", "publish", "done"}

\* what holds of the writes made so far
C17_State ==
  \A e \in writes :
    /\ e.var \in {"g_hit", "g_node_visit_count"} => (e.tid = 0 /\ e.slot = e.bid)
    /\ e.var = "g_hit" => e.at = "publish"
    /\ (e.var = "t_hit" /\ e.at \in {"init", "body"}) => e.slot = e.tid
    /\ \A f \in writes :
         (f.var = e.var /\ f.slot = e.slot /\ (e.var = "t_hit" => f.bid = e.bid))
           => (f.bid = e.bid /\ f.tid = e.tid)

\* what holds of the step that writes g_hit[b]
C17_Step ==
  \A b \in Blocks :
    (\E e \in writes' \ writes : e.var = "g_hit" /\ e.slot = b) =>
      /\ PastLoop(b)
      /\ \A u \in Workers : barriers[b][u] = barriers[b][0]
      /\ \E e \in writes : e.var = "t_hit" /\ e.bid = b /\ e.at = "sync469"

\* C17: single publisher. In a scan invocation g_hit[b] and
\* g_node_visit_count[b] are written by the master worker of group b only;
\* g_hit[b] is written only when every worker of the group has left the
\* loop and reached the barrier after it and the reduction has been made;
\* up to that barrier each worker writes only its own slot of t_hit; and no
\* two workers write the same counter slot.
C17_SinglePublisher == []C17_State /\ [][C17_Step]_vars

\* an invocation is over in which both groups published and two workers of
\* group 0 each counted a hit in their own slot
C17_Witness ==
  /\ KernelDone
  /\ \A b \in Blocks : \E e \in writes : e.var = "g_hit" /\ e.slot = b
  /\ \E e \in writes : e.var = "t_hit" /\ e.at = "body" /\ e.bid = 0 /\ e.tid = 0
  /\ \E e \in writes : e.var = "t_hit" /\ e.at = "body" /\ e.bid = 0 /\ e.tid = 1
  /\ g_hit[0] >= 2


\* the stages of Build that report success or failure through ret
FallibleStages ==
  {"AssignHilbertIndexToBranches", "Sort", "Top_Down", "CopyBranchToNodeSOA",
   "MoveTreeToGPU"}

\* the last stage of this Build that assigned ret returned false (ret is
\* assigned by the fallible stages only)
ReportedFailure ==
  /\ ~ret
  /\ \E i \in 1..Len(stages) : stages[i] \in FallibleStages

\* what holds of every state of a Build after a stage has reported failure
C21_State ==
  ReportedFailure =>
    /\ pc = "aborted"
    /\ stages[Len(stages)] \in FallibleStages

\* what holds of every step of a Build after a stage has reported failure
C21_Step ==
  ReportedFailure =>
    /\ stages' = stages \/ session' # session
    /\ index_file' = index_file
    /\ file_exists' = file_exists
    /\ pc' # "return true"

\* C21: build failure propagation. Once a build stage
\* (AssignHilbertIndexToBranches, Sorter::Sort, Top_Down, CopyBranchToNodeSOA,
\* MoveTreeToGPU) has returned false, Build aborts: it executes no later
\* stage, writes no index file through DumpToFile, and does not return true.
C21_FailurePropagation == []C21_State /\ [][C21_Step]_vars

====
